---- MODULE Spec2Model ----
(***************************************************************************)
(* State-machine model of the RAG orchestration core of the RAG Desktop    *)
(* Assistant: the Chunk Store (core/vector_store.py), the Query            *)
(* Orchestrator (core/rag_engine.py), the two Response Generators          *)
(* (core/gemini_processor.py, core/nlp_processor.py) and the Telemetry     *)
(* Store (core/analytics.py, core/logger.py).                              *)
(*                                                                         *)
(* Texts are sequences of one-character strings, so that len() is Len and  *)
(* string concatenation is \o.  A chunk identity f"{file_hash}_{i}" is the *)
(* pair <<file_hash, i>>.                                                  *)
(***************************************************************************)
EXTENDS Integers, Sequences, FiniteSets, TLC

VARIABLES
    collection,        \* rows of the persistent ChromaDB collection "documents"
    using_gemini,      \* RAGEngine.using_gemini, fixed by RAGEngine.__init__
    nltk_data,         \* whether the NLTK tokenizer data is installed on this machine
    query_metrics,     \* rows of the sqlite table query_metrics
    document_metrics,  \* rows of the sqlite table document_metrics
    uuid_counter,      \* number of uuid4 values drawn so far (each one is fresh)
    op,                \* operation in flight: "none", "add", "query"
    pc,                \* stage of RAGEngine.query in flight
    apc,               \* position inside VectorStore.add_documents in flight
    question,          \* query(): question
    documents,         \* add_documents()/query(): documents
    streaming,         \* query(): whether documents[0] carries a stream_callback
    ids,               \* add_documents(): the parallel lists texts/metadatas/ids, as rows
    bi,                \* add_documents(): loop variable i of the batch loop
    bj,                \* add_documents(): loop variable j of the retry loop
    search_results,    \* query(): search_results
    context,           \* query(): context
    sources,           \* query(): sources, the list built from a set, kept as that set
    response,          \* query(): response
    query_id,          \* query(): query_id
    ret,               \* value returned by the last query() call, <<>> if none
    raised,            \* where the exception that ended the last query() was raised, "no" if none
    gen_calls,         \* number of process_question invocations of the call in flight
    fragments,         \* fragments passed to stream_callback by the call in flight
    submits,           \* collection.add submissions of the add_documents call in flight
    errors_logged,     \* rag_logger.error lines written by the add_documents call in flight
    telemetry_at_call, \* the telemetry tables as they were when the query() in flight began
    last_add,          \* outcome of the last completed add_documents call, kept while
                       \* the next call has the same documents and nothing was removed
    tpc,               \* ToolRegistry.execute_tool called on its own: "idle", "called", "returned", "raised"
    tool_name,         \* execute_tool(): tool_name
    tool_params,       \* execute_tool(): parameters
    tool_out,          \* execute_tool(): the text returned (or the message of the exception
                       \* that escaped), and whether eval() was reached
    cpc,               \* position inside RAGEngine.__init__: "new", "except", "ready", "raised"
    gemini_inits,      \* number of GeminiProcessor() constructions so far
    api_key,           \* environment: whether GEMINI_API_KEY is set
    api_ok,            \* environment: whether the Gemini API answers the probe of the constructor
    stdout_encoding,   \* environment: the encoding of sys.stdout
    stats,             \* value returned by the last get_stats() call, NULL if none
    search_ret,        \* the last VectorStore.search() call made on its own: its arguments, the
                       \* index it ran on and what it returned or raised; NULL if none
    clear_errors,      \* rag_logger.error lines written by VectorStore.clear
    removed,           \* the last remove_document() call and the rows stored before it; NULL
                       \* once the store is added to or cleared
    added,             \* the add_documents call in flight or last completed: its documents,
                       \* the rows stored when it began and, once it has returned, the rows
                       \* stored then and what it logged; NULL if none
    local_call,        \* NLPProcessor.process_question called on its own: its arguments,
                       \* its position and what it has produced so far
    adder2,            \* add_documents called by a second thread on the same collection:
                       \* its locals and, once it has returned, what it did
    memory_manager,    \* the global MemoryManager: loaded_models and the weak model_refs
    embedding_model,   \* VectorStore.embedding_model of every engine's store, NULL if not loaded
    store_active,      \* VectorStore._active of every engine's store
    engine_active,     \* RAGEngine._active of every engine
    models_built,      \* number of SentenceTransformer objects constructed so far
    last_model_op      \* the last operation on the manager or on a store's model

vars == <<collection, using_gemini, nltk_data, query_metrics, document_metrics,
          uuid_counter, op, pc, apc, question, documents, streaming, ids, bi, bj,
          search_results, context, sources, response, query_id, ret, raised,
          gen_calls, fragments, submits, errors_logged, telemetry_at_call, last_add,
          tpc, tool_name, tool_params, tool_out,
          cpc, gemini_inits, api_key, api_ok, stdout_encoding, stats,
          search_ret, clear_errors, removed,
          added,
          local_call,
          adder2,
          memory_manager, embedding_model, store_active, engine_active, models_built,
          last_model_op>>

storeVars == <<collection>>
programVars == <<collection, using_gemini, nltk_data, query_metrics, document_metrics,
                 uuid_counter, op, pc, apc, question, documents, streaming, ids, bi, bj,
                 search_results, context, sources, response, query_id, ret, raised,
                 gen_calls, fragments, submits, errors_logged, telemetry_at_call, last_add,
                 tpc, tool_name, tool_params, tool_out,
                 cpc, gemini_inits, api_key, api_ok, stdout_encoding, stats,
                 search_ret, clear_errors, removed, added, local_call, adder2>>
memVars == <<memory_manager, embedding_model, store_active, engine_active, models_built,
             last_model_op>>
telemetryVars == <<query_metrics, document_metrics>>
envVars == <<using_gemini, nltk_data>>
toolVars == <<tpc, tool_name, tool_params, tool_out>>
ctorVars == <<cpc, gemini_inits, api_key, api_ok, stdout_encoding>>
addLocals == <<ids, bi, bj, submits, errors_logged>>
queryLocals == <<question, streaming, search_results, context, sources, response,
                 query_id, gen_calls, fragments, telemetry_at_call>>

NoTelemetry == <<{}, {}>>

\* Python's None / SQL NULL in a field that otherwise holds a number or a text:
\* the field holds <<>> for None and <<v>> for the value v.
NULL == <<>>
Some(v) == <<v>>

\* last_add before any add_documents call has completed
NoAdd == [valid |-> FALSE, docs |-> <<>>, after |-> {}, ok |-> FALSE,
          repeat |-> FALSE, once |-> {}, once_ok |-> FALSE]

(***************************************************************************)
(* Bounds of the model.                                                    *)
(***************************************************************************)
BigChunks == 101       \* chunk count of the large document (more than one batch)
MaxQueries == 1        \* query() calls per behaviour
MaxExprLen == 3        \* characters of an expression given to the calculator
MaxClearErrors == 1    \* failures of VectorStore.clear per behaviour
MaxEngines == 2        \* RAGEngine instances alive in the process
MaxModels == 3         \* SentenceTransformer objects constructed per behaviour

(***************************************************************************)
(* Generic helpers.                                                        *)
(***************************************************************************)
Min(a, b) == IF a < b THEN a ELSE b

Range(s) == {s[k] : k \in 1..Len(s)}

\* Python slice s[lo:hi] with 0-based lo and exclusive hi, clipped to len(s).
Slice(s, lo, hi) == SubSeq(s, lo + 1, Min(hi, Len(s)))

RECURSIVE Concat(_)
Concat(ss) == IF ss = <<>> THEN <<>> ELSE Head(ss) \o Concat(Tail(ss))

(***************************************************************************)
(* Documents, as produced by DocumentProcessor.process_document.           *)
(* file_hash is a digest of the file's content, so the chunks are a        *)
(* function of the hash; the same content may be uploaded under two names. *)
(***************************************************************************)
Hashes == {"h1", "h2", "h3"}
Filenames == {"a.txt", "b.txt"}

HashNum(h) == CASE h = "h1" -> 1 [] h = "h2" -> 2 [] OTHER -> 3

ChunkCountOf(h) == CASE h = "h1" -> 1 [] h = "h2" -> 2 [] OTHER -> BigChunks

Body(h) == CASE h = "h1" -> <<"s", "k", "y">> [] h = "h2" -> <<"s", "e", "a", ".">> [] OTHER -> <<"b">>

\* Text of chunk i (0-based) of the content with digest h.
ChunkText(h, i) == IF i % 2 = 0 THEN Body(h) ELSE Body(h) \o <<"!">>

MkDoc(h, f) ==
    [file_hash |-> h, filename |-> f, filepath |-> <<"/">> \o <<f>>,
     chunks |-> [k \in 1..ChunkCountOf(h) |-> ChunkText(h, k - 1)]]

\* a.txt, a copy of it named b.txt, an edited a.txt, and a large b.txt
DocA == MkDoc("h1", "a.txt")
DocACopy == MkDoc("h1", "b.txt")
DocAEdited == MkDoc("h2", "a.txt")
DocBig == MkDoc("h3", "b.txt")

\* The documents lists passed to add_documents.
DocLists == {<<>>, <<DocA>>, <<DocACopy>>, <<DocAEdited>>, <<DocBig>>,
             <<DocA, DocA>>, <<DocA, DocACopy>>, <<DocA, DocAEdited>>, <<DocBig, DocA>>}


(***************************************************************************)
(* Chunk Store: core/vector_store.py                                       *)
(***************************************************************************)
batch_size == 100

ChunkId(file_hash, i) == <<file_hash, i>>

StoredIds(coll) == {r.id : r \in coll}

\* One element of the parallel lists texts / metadatas / ids (lines 60-67).
ChunkRow(doc, i) ==
    [id |-> ChunkId(doc.file_hash, i), text |-> doc.chunks[i + 1],
     filename |-> doc.filename, filepath |-> doc.filepath,
     chunk_index |-> i, file_hash |-> doc.file_hash]

\* A bug variant of the inner loop: it stops after the first chunk of the document.
DocRowsFirstOnly(doc, existing_ids) ==
    SelectSeq([k \in 1..Min(1, Len(doc.chunks)) |-> ChunkRow(doc, k - 1)],
              LAMBDA r : r.id \notin existing_ids)

\* The inner loop over one document's chunks, skipping identities in existing_ids.
DocRows(doc, existing_ids) ==
    SelectSeq([k \in 1..Len(doc.chunks) |-> ChunkRow(doc, k - 1)],
              LAMBDA r : r.id \notin existing_ids)

\* A bug variant of the loop: the identity is numbered from the count of the
\* existing ids instead of from the chunk's own index.
NewRowsOffsetIds(docs, existing_ids) ==
    LET all == Concat([d \in 1..Len(docs) |-> DocRows(docs[d], {})])
        renamed == [k \in 1..Len(all) |->
                      [all[k] EXCEPT !.id = ChunkId(all[k].file_hash,
                                                    Cardinality(existing_ids) + all[k].chunk_index)]]
    IN SelectSeq(renamed, LAMBDA r : r.id \notin existing_ids)

\* The loop over the documents of the call (lines 50-68).
NewRows(docs, existing_ids) ==
    Concat([d \in 1..Len(docs) |-> DocRows(docs[d], existing_ids)])

\* collection.add rejects a batch that names the same id twice.
HasDuplicateIds(batch) ==
    Cardinality({batch[k].id : k \in 1..Len(batch)}) # Len(batch)

\* A bug variant of collection.add: rows of ids already stored are replaced (upsert).
CollectionUpsert(coll, batch) ==
    {r \in coll : r.id \notin {b.id : b \in Range(batch)}} \cup Range(batch)

\* A bug variant of collection.add: an insertion first deletes the rows stored
\* for the same filename under another file_hash.
CollectionAddReplacingFile(coll, batch) ==
    LET kept == {r \in coll : ~\E b \in Range(batch) :
                                  b.filename = r.filename /\ b.file_hash # r.file_hash}
    IN kept \cup {b \in Range(batch) : b.id \notin StoredIds(kept)}

\* A bug variant of collection.add: the rows are inserted whether or not their
\* ids are stored.
CollectionAddUnchecked(coll, batch) == coll \cup Range(batch)

\* collection.add on a batch without duplicate ids: rows whose id is already
\* stored are ignored, the others are inserted.
CollectionAdd(coll, batch) ==
    coll \cup {b \in Range(batch) : b.id \notin StoredIds(coll)}

\* Whether no sub-batch of the call was dropped (line 117 never ran).
NoneDropped(subs) == \A k \in 1..Len(subs) : subs[k].small => subs[k].ok

(***************************************************************************)
(* Resource Budget Manager: core/memory_manager.py, and the embedding      *)
(* model of the stores: core/vector_store.py lines 183-215.  The engines   *)
(* modelled here hold no other registered model: their generator is the    *)
(* remote one, or the local one on a machine without spaCy.                *)
(***************************************************************************)
\* The RAGEngine instances of the process, each with its own VectorStore;
\* atexit keeps a reference to every one of them until the process exits
\* (rag_engine.py line 35, vector_store.py line 26).
Engines == 1..MaxEngines

ModelNames == {"sentence_transformer"}

\* MemoryManager.__init__ (lines 11-14): nothing is registered.
NoRegistrations ==
    [loaded_models |-> [n \in ModelNames |-> NULL], model_refs |-> [n \in ModelNames |-> NULL]]

NoModelOp == [op |-> "none", engine |-> 0]

\* The objects some store holds a strong reference to.
HeldModels(em) == {em[i][1] : i \in {j \in Engines : em[j] # NULL}}

\* The objects the manager holds a strong reference to: loaded_models[name]['object'].
OwnedModels(mm) == {mm.loaded_models[n][1] : n \in {m \in ModelNames : mm.loaded_models[m] # NULL}}

\* weakref.WeakValueDictionary (line 14): an entry disappears when no strong
\* reference to its value is left.
WeakValues(mm, em) ==
    [mm EXCEPT !.model_refs =
        [n \in ModelNames |->
            IF mm.model_refs[n] # NULL /\ mm.model_refs[n][1] \in HeldModels(em) \cup OwnedModels(mm)
              THEN mm.model_refs[n] ELSE NULL]]

\* MemoryManager.register_model (lines 32-42).
register_model(mm, model_name, model_obj) ==
    [mm EXCEPT !.loaded_models[model_name] = Some(model_obj),
               !.model_refs[model_name] = Some(model_obj)]

\* MemoryManager.unload_model (lines 44-56).
unload_model(mm, model_name) ==
    IF mm.loaded_models[model_name] # NULL
      THEN [mm EXCEPT !.loaded_models[model_name] = NULL, !.model_refs[model_name] = NULL]
      ELSE mm

\* MemoryManager.cleanup_unused_models (lines 58-66): every name of
\* loaded_models that is not in model_refs is unloaded.
cleanup_unused_models(mm) ==
    [mm EXCEPT !.loaded_models =
        [n \in ModelNames |-> IF mm.loaded_models[n] # NULL /\ mm.model_refs[n] = NULL
                                THEN NULL ELSE mm.loaded_models[n]]]

\* MemoryManager.force_cleanup (lines 68-79): every name is unloaded.
force_cleanup(mm) == NoRegistrations

\* VectorStore.__init__ (lines 12-29) and RAGEngine.__init__ for every engine.
NoModels ==
    /\ memory_manager = NoRegistrations
    /\ embedding_model = [i \in Engines |-> NULL]
    /\ store_active = [i \in Engines |-> TRUE]
    /\ engine_active = [i \in Engines |-> TRUE]
    /\ models_built = 0
    /\ last_model_op = NoModelOp

\* VectorStore._get_embedding_model (lines 183-194) of engine i's store;
\* should_unload_models() is the memory pressure of the moment.
UseEmbeddingModel(i) ==
    /\ embedding_model[i] = NULL => models_built < MaxModels
    /\ \E should_unload_models \in BOOLEAN :
          IF embedding_model[i] = NULL
            THEN LET mm == IF should_unload_models
                             THEN cleanup_unused_models(WeakValues(memory_manager, embedding_model))
                             ELSE memory_manager
                     model == models_built + 1
                     em == [embedding_model EXCEPT ![i] = Some(model)]
                 IN /\ embedding_model' = em
                    /\ memory_manager' = WeakValues(register_model(mm, "sentence_transformer", model), em)
                    /\ models_built' = model
            ELSE UNCHANGED <<embedding_model, memory_manager, models_built>>
    /\ last_model_op' = [op |-> "_get_embedding_model", engine |-> i]
    /\ UNCHANGED <<store_active, engine_active>>

\* A call that raised while it embedded or inserted: the model was obtained, or
\* its construction was what raised.
MayUseEmbeddingModel(i) ==
    \/ UseEmbeddingModel(i)
    \/ embedding_model[i] = NULL /\ UNCHANGED memVars

\* VectorStore.unload_embedding_model (lines 196-200) of engine i's store.
UnloadEmbeddingModel(mm, em, i) ==
    IF em[i] # NULL
      THEN [mm |-> unload_model(mm, "sentence_transformer"), em |-> [em EXCEPT ![i] = NULL]]
      ELSE [mm |-> mm, em |-> em]

\* Engine i's store needs its embedding model (to embed chunks or a question).
GetEmbeddingModel(i) ==
    /\ UseEmbeddingModel(i)
    /\ UNCHANGED programVars

\* VectorStore.cleanup (lines 202-212) of engine i's store, as atexit or
\* __del__ run it.
StoreCleanup(i) ==
    /\ IF store_active[i]
         THEN LET u == UnloadEmbeddingModel(memory_manager, embedding_model, i) IN
              /\ store_active' = [store_active EXCEPT ![i] = FALSE]
              /\ embedding_model' = u.em
              /\ memory_manager' = WeakValues(u.mm, u.em)
         ELSE UNCHANGED <<store_active, embedding_model, memory_manager>>
    /\ last_model_op' = [op |-> "VectorStore.cleanup", engine |-> i]
    /\ UNCHANGED <<engine_active, models_built, programVars>>

\* RAGEngine.cleanup (rag_engine.py lines 143-155) of engine i: the cleanup of
\* its store, the cleanup of its generator, then memory_manager.force_cleanup().
EngineCleanup(i) ==
    /\ IF engine_active[i]
         THEN LET u == IF store_active[i]
                         THEN UnloadEmbeddingModel(memory_manager, embedding_model, i)
                         ELSE [mm |-> memory_manager, em |-> embedding_model]
              IN /\ engine_active' = [engine_active EXCEPT ![i] = FALSE]
                 /\ store_active' = [store_active EXCEPT ![i] = FALSE]
                 /\ embedding_model' = u.em
                 /\ memory_manager' = WeakValues(force_cleanup(u.mm), u.em)
         ELSE UNCHANGED <<engine_active, store_active, embedding_model, memory_manager>>
    /\ last_model_op' = [op |-> "RAGEngine.cleanup", engine |-> i]
    /\ UNCHANGED <<models_built, programVars>>

\* MainWindow.force_memory_cleanup (ui/main_window.py lines 138-141).
ForceCleanup ==
    /\ memory_manager' = WeakValues(force_cleanup(memory_manager), embedding_model)
    /\ last_model_op' = [op |-> "force_cleanup", engine |-> 0]
    /\ UNCHANGED <<embedding_model, store_active, engine_active, models_built, programVars>>

\* memory_manager.cleanup_unused_models() called on its own.
CleanupUnusedModels ==
    /\ memory_manager' = cleanup_unused_models(WeakValues(memory_manager, embedding_model))
    /\ last_model_op' = [op |-> "cleanup_unused_models", engine |-> 0]
    /\ UNCHANGED <<embedding_model, store_active, engine_active, models_built, programVars>>

\* The component that created a model lets go of it without unloading it: the
\* case the weak cross-reference of register_model (line 39) is kept for.
OwnerDropsModel(i) ==
    /\ embedding_model[i] # NULL
    /\ embedding_model' = [embedding_model EXCEPT ![i] = NULL]
    /\ memory_manager' = WeakValues(memory_manager, embedding_model')
    /\ last_model_op' = [op |-> "dropped", engine |-> i]
    /\ UNCHANGED <<store_active, engine_active, models_built, programVars>>

(***************************************************************************)
(* Chunk Store: the operations of core/vector_store.py                     *)
(***************************************************************************)
\* added when an add_documents call on docs begins with the rows before stored.
AddBegins(docs, before) ==
    [docs |-> docs, before |-> before, done |-> FALSE, after |-> {}, errors |-> 0,
     dropped |-> FALSE]

\* RAGEngine.add_documents / VectorStore.add_documents: entry.
AddDocumentsCall(docs) ==
    /\ op = "none"
    /\ op' = "add"
    /\ apc' = "get"
    /\ documents' = docs
    /\ ids' = <<>> /\ bi' = 0 /\ bj' = 0 /\ submits' = <<>> /\ errors_logged' = 0
    /\ last_add' = IF last_add.docs = docs THEN last_add ELSE NoAdd
    /\ removed' = NULL
    /\ added' = Some(AddBegins(docs, collection))
    /\ UNCHANGED <<memVars, adder2, local_call, storeVars, telemetryVars, envVars, toolVars, ctorVars, stats, search_ret,
                   clear_errors, uuid_counter, pc, queryLocals, ret, raised>>

\* Lines 37-70: read the existing ids once (or none, if the read fails) and build
\* the lists of new chunks.
AddCollect ==
    /\ apc = "get"
    /\ \E existing_ids \in {StoredIds(collection), {}} :
          ids' = NewRows(documents, existing_ids)
    /\ apc' = "batch"
    /\ bi' = 0
    /\ UNCHANGED <<memVars, adder2, local_call, added, storeVars, telemetryVars, envVars, toolVars, ctorVars, stats, search_ret, clear_errors, removed, uuid_counter, op, pc, documents,
                   bj, submits, errors_logged, queryLocals, ret, raised, last_add>>

\* Lines 77-94: one batch is embedded and inserted.
AddBatchStored ==
    /\ apc = "batch" /\ bi < Len(ids)
    /\ LET batch == Slice(ids, bi, bi + batch_size) IN
         /\ ~HasDuplicateIds(batch)
         /\ collection' = CollectionAdd(collection, batch)
         /\ submits' = Append(submits, [lo |-> bi, hi |-> bi + Len(batch), ok |-> TRUE, small |-> FALSE])
    /\ bi' = bi + batch_size
    /\ UseEmbeddingModel(1)
    /\ UNCHANGED <<adder2, local_call, added, telemetryVars, envVars, toolVars, ctorVars, stats, search_ret, clear_errors, removed, uuid_counter, op, pc, apc, documents, ids,
                   bj, errors_logged, queryLocals, ret, raised, last_add>>

\* A bug variant of the failure handler: the first failure ends the batch loop.
AddBatchFailedAborts ==
    /\ apc = "batch" /\ bi < Len(ids)
    /\ LET batch == Slice(ids, bi, bi + batch_size) IN
         submits' = Append(submits, [lo |-> bi, hi |-> bi + Len(batch), ok |-> FALSE, small |-> FALSE])
    /\ errors_logged' = errors_logged + 1
    /\ bi' = Len(ids)
    /\ MayUseEmbeddingModel(1)
    /\ UNCHANGED <<adder2, local_call, added, storeVars, telemetryVars, envVars, toolVars, ctorVars, stats, search_ret, clear_errors, removed, uuid_counter, op, pc, apc, documents, ids,
                   bj, queryLocals, ret, raised, last_add>>

\* Lines 96-101: embedding or insertion of the batch raised; the error is logged
\* and the retry loop is entered when batch_size > 10.
AddBatchFailed ==
    /\ apc = "batch" /\ bi < Len(ids)
    /\ LET batch == Slice(ids, bi, bi + batch_size) IN
         submits' = Append(submits, [lo |-> bi, hi |-> bi + Len(batch), ok |-> FALSE, small |-> FALSE])
    /\ errors_logged' = errors_logged + 1
    /\ IF batch_size > 10
         THEN apc' = "small" /\ bj' = bi /\ bi' = bi
         ELSE apc' = apc /\ bj' = bj /\ bi' = bi + batch_size
    /\ MayUseEmbeddingModel(1)
    /\ UNCHANGED <<adder2, local_call, added, storeVars, telemetryVars, envVars, toolVars, ctorVars, stats, search_ret, clear_errors, removed, uuid_counter, op, pc, documents, ids,
                   queryLocals, ret, raised, last_add>>

\* A bug variant of the retry loop: j advances by half the size of a sub-batch,
\* so that consecutive sub-batches overlap.
RetryAdvanceOverlapping ==
    LET smaller_batch_size == batch_size \div 2 IN
    IF bj + smaller_batch_size \div 2 < Min(bi + batch_size, Len(ids))
      THEN bj' = bj + smaller_batch_size \div 2 /\ bi' = bi /\ apc' = apc
      ELSE bj' = bj /\ bi' = bi + batch_size /\ apc' = "batch"

\* Advance j of the retry loop (line 102); when the range is exhausted the
\* batch loop continues with the next i.
RetryAdvance ==
    LET smaller_batch_size == batch_size \div 2 IN
    IF bj + smaller_batch_size < Min(bi + batch_size, Len(ids))
      THEN bj' = bj + smaller_batch_size /\ bi' = bi /\ apc' = apc
      ELSE bj' = bj /\ bi' = bi + batch_size /\ apc' = "batch"

\* Lines 103-115: one half-size sub-batch is embedded and inserted.
AddSmallStored ==
    /\ apc = "small"
    /\ LET small_batch == Slice(ids, bj, bj + batch_size \div 2) IN
         /\ ~HasDuplicateIds(small_batch)
         /\ collection' = CollectionAdd(collection, small_batch)
         /\ submits' = Append(submits, [lo |-> bj, hi |-> bj + Len(small_batch), ok |-> TRUE, small |-> TRUE])
    /\ RetryAdvance
    /\ UseEmbeddingModel(1)
    /\ UNCHANGED <<adder2, local_call, added, telemetryVars, envVars, toolVars, ctorVars, stats, search_ret, clear_errors, removed, uuid_counter, op, pc, documents, ids,
                   errors_logged, queryLocals, ret, raised, last_add>>

\* Lines 116-117: the sub-batch raised; it is logged and dropped.
AddSmallFailed ==
    /\ apc = "small"
    /\ LET small_batch == Slice(ids, bj, bj + batch_size \div 2) IN
         submits' = Append(submits, [lo |-> bj, hi |-> bj + Len(small_batch), ok |-> FALSE, small |-> TRUE])
    /\ errors_logged' = errors_logged + 1
    /\ RetryAdvance
    /\ MayUseEmbeddingModel(1)
    /\ UNCHANGED <<adder2, local_call, added, storeVars, telemetryVars, envVars, toolVars, ctorVars, stats, search_ret, clear_errors, removed, uuid_counter, op, pc, documents, ids,
                   queryLocals, ret, raised, last_add>>

\* Line 119 and return: the batch loop is exhausted (or there was nothing to
\* add); the locals of the call are gone.
AddReturn ==
    /\ apc = "batch" /\ bi >= Len(ids)
    /\ apc' = "none"
    /\ op' = IF op = "add" THEN "none" ELSE op
    /\ last_add' = [valid |-> TRUE, docs |-> documents, after |-> collection,
                    ok |-> NoneDropped(submits),
                    repeat |-> last_add.valid /\ last_add.docs = documents,
                    once |-> IF last_add.valid /\ last_add.docs = documents
                               THEN last_add.after ELSE {},
                    once_ok |-> last_add.valid /\ last_add.docs = documents /\ last_add.ok]
    /\ ids' = <<>> /\ bi' = 0 /\ bj' = 0 /\ submits' = <<>> /\ errors_logged' = 0
    /\ documents' = IF op = "add" THEN <<>> ELSE documents
    /\ added' = Some([added[1] EXCEPT !.done = TRUE, !.after = collection,
                                      !.errors = errors_logged,
                                      !.dropped = ~NoneDropped(submits)])
    /\ UNCHANGED <<memVars, adder2, local_call, storeVars, telemetryVars, envVars, toolVars, ctorVars, stats, search_ret, clear_errors, removed, uuid_counter, pc, queryLocals, ret, raised>>

\* adder2 when the second thread is not in add_documents and has not been.
NoAdder == [apc |-> "none", documents |-> <<>>, ids |-> <<>>, bi |-> 0, bj |-> 0,
            submits |-> <<>>, errors_logged |-> 0, overlapped |-> FALSE, done |-> FALSE]

\* The second thread enters add_documents (ChatThread.run builds its own
\* RAGEngine on the same persistent collection and calls query with documents).
Add2Call(docs) ==
    /\ adder2.apc = "none"
    /\ adder2' = [NoAdder EXCEPT !.apc = "get", !.documents = docs]
    /\ UNCHANGED <<memVars, local_call, added, storeVars, telemetryVars, envVars, toolVars, ctorVars, stats, search_ret,
                   clear_errors, removed, uuid_counter, op, pc, apc, documents, addLocals,
                   queryLocals, ret, raised, last_add>>

\* Lines 37-70 in the second thread; overlapped tells whether the first
\* thread's call was in flight when the existing ids were read.
Add2Collect ==
    /\ adder2.apc = "get"
    /\ \E existing_ids \in {StoredIds(collection), {}} :
          adder2' = [adder2 EXCEPT !.ids = NewRows(adder2.documents, existing_ids),
                                   !.apc = "batch", !.bi = 0,
                                   !.overlapped = (apc # "none")]
    /\ UNCHANGED <<memVars, local_call, added, storeVars, telemetryVars, envVars, toolVars, ctorVars, stats, search_ret,
                   clear_errors, removed, uuid_counter, op, pc, apc, documents, addLocals,
                   queryLocals, ret, raised, last_add>>

\* Lines 77-94 in the second thread.
Add2BatchStored ==
    /\ adder2.apc = "batch" /\ adder2.bi < Len(adder2.ids)
    /\ LET batch == Slice(adder2.ids, adder2.bi, adder2.bi + batch_size) IN
         /\ ~HasDuplicateIds(batch)
         /\ collection' = CollectionAdd(collection, batch)
         /\ adder2' = [adder2 EXCEPT
                          !.submits = Append(@, [lo |-> adder2.bi, hi |-> adder2.bi + Len(batch),
                                                 ok |-> TRUE, small |-> FALSE]),
                          !.bi = @ + batch_size]
    /\ UseEmbeddingModel(2)
    /\ UNCHANGED <<local_call, added, telemetryVars, envVars, toolVars, ctorVars, stats, search_ret,
                   clear_errors, removed, uuid_counter, op, pc, apc, documents, addLocals,
                   queryLocals, ret, raised, last_add>>

\* Lines 96-101 in the second thread.
Add2BatchFailed ==
    /\ adder2.apc = "batch" /\ adder2.bi < Len(adder2.ids)
    /\ LET batch == Slice(adder2.ids, adder2.bi, adder2.bi + batch_size)
           failed == [adder2 EXCEPT
                         !.submits = Append(@, [lo |-> adder2.bi, hi |-> adder2.bi + Len(batch),
                                                ok |-> FALSE, small |-> FALSE]),
                         !.errors_logged = @ + 1]
       IN adder2' = IF batch_size > 10
                      THEN [failed EXCEPT !.apc = "small", !.bj = adder2.bi]
                      ELSE [failed EXCEPT !.bi = @ + batch_size]
    /\ MayUseEmbeddingModel(2)
    /\ UNCHANGED <<local_call, added, storeVars, telemetryVars, envVars, toolVars, ctorVars, stats, search_ret,
                   clear_errors, removed, uuid_counter, op, pc, apc, documents, addLocals,
                   queryLocals, ret, raised, last_add>>

\* Line 102 in the second thread: j advances, or the batch loop continues.
RetryAdvanced(t) ==
    LET smaller_batch_size == batch_size \div 2 IN
    IF t.bj + smaller_batch_size < Min(t.bi + batch_size, Len(t.ids))
      THEN [t EXCEPT !.bj = @ + smaller_batch_size]
      ELSE [t EXCEPT !.bi = @ + batch_size, !.apc = "batch"]

\* Lines 103-115 in the second thread.
Add2SmallStored ==
    /\ adder2.apc = "small"
    /\ LET small_batch == Slice(adder2.ids, adder2.bj, adder2.bj + batch_size \div 2) IN
         /\ ~HasDuplicateIds(small_batch)
         /\ collection' = CollectionAdd(collection, small_batch)
         /\ adder2' = RetryAdvanced([adder2 EXCEPT
                          !.submits = Append(@, [lo |-> adder2.bj, hi |-> adder2.bj + Len(small_batch),
                                                 ok |-> TRUE, small |-> TRUE])])
    /\ UseEmbeddingModel(2)
    /\ UNCHANGED <<local_call, added, telemetryVars, envVars, toolVars, ctorVars, stats, search_ret,
                   clear_errors, removed, uuid_counter, op, pc, apc, documents, addLocals,
                   queryLocals, ret, raised, last_add>>

\* Lines 116-117 in the second thread.
Add2SmallFailed ==
    /\ adder2.apc = "small"
    /\ LET small_batch == Slice(adder2.ids, adder2.bj, adder2.bj + batch_size \div 2) IN
         adder2' = RetryAdvanced([adder2 EXCEPT
                          !.submits = Append(@, [lo |-> adder2.bj, hi |-> adder2.bj + Len(small_batch),
                                                 ok |-> FALSE, small |-> TRUE]),
                          !.errors_logged = @ + 1])
    /\ MayUseEmbeddingModel(2)
    /\ UNCHANGED <<local_call, added, storeVars, telemetryVars, envVars, toolVars, ctorVars, stats, search_ret,
                   clear_errors, removed, uuid_counter, op, pc, apc, documents, addLocals,
                   queryLocals, ret, raised, last_add>>

\* Line 119 and return in the second thread; what the call did is kept.
Add2Return ==
    /\ adder2.apc = "batch" /\ adder2.bi >= Len(adder2.ids)
    /\ adder2' = [adder2 EXCEPT !.apc = "none", !.done = TRUE]
    /\ UNCHANGED <<memVars, local_call, added, storeVars, telemetryVars, envVars, toolVars, ctorVars, stats, search_ret,
                   clear_errors, removed, uuid_counter, op, pc, apc, documents, addLocals,
                   queryLocals, ret, raised, last_add>>

\* VectorStore.clear via RAGEngine.clear_documents (lines 155-167): the
\* collection is dropped and recreated; when the index raises, the error is
\* logged, clear returns and the rows stay.
ClearDocuments ==
    /\ op = "none"
    /\ \/ /\ collection' = {}
          /\ last_add' = NoAdd /\ removed' = NULL
          /\ clear_errors' = clear_errors
       \/ /\ clear_errors < MaxClearErrors
          /\ clear_errors' = clear_errors + 1
          /\ UNCHANGED <<collection, last_add, removed>>
    /\ UNCHANGED <<memVars, adder2, local_call, added, telemetryVars, envVars, toolVars, ctorVars, stats, search_ret, uuid_counter, op,
                   pc, apc, documents, addLocals, queryLocals, ret, raised>>

\* A bug variant of remove_document: the rows are selected by the filename of
\* the document instead of its file_hash.
RemoveDocumentByFilename(file_hash) ==
    /\ op = "none"
    /\ LET names == {r.filename : r \in {x \in collection : x.file_hash = file_hash}}
           results == {r \in collection : r.filename \in names}
       IN collection' = IF results # {} THEN collection \ results ELSE collection
    /\ last_add' = NoAdd
    /\ removed' = Some([file_hash |-> file_hash, before |-> collection])
    /\ UNCHANGED <<memVars, adder2, local_call, added, telemetryVars, envVars, toolVars, ctorVars, stats, search_ret, clear_errors,
                   uuid_counter, op, pc, apc, documents, addLocals, queryLocals, ret, raised>>

\* VectorStore.remove_document (lines 173-181): delete the rows whose metadata
\* file_hash matches.
RemoveDocument(file_hash) ==
    /\ op = "none"
    /\ LET results == {r \in collection : r.file_hash = file_hash} IN
         collection' = IF results # {} THEN collection \ results ELSE collection
    /\ last_add' = NoAdd
    /\ removed' = Some([file_hash |-> file_hash, before |-> collection])
    /\ UNCHANGED <<memVars, adder2, local_call, added, telemetryVars, envVars, toolVars, ctorVars, stats, search_ret, clear_errors,
                   uuid_counter, op, pc, apc, documents, addLocals, queryLocals, ret, raised>>


(***************************************************************************)
(* Texts of the generators and of the orchestrator.  A fixed message is    *)
(* kept as one element; whitespace is kept character by character, which   *)
(* is what str.strip() looks at.                                           *)
(***************************************************************************)
Whitespace == {" ", "\n"}

RECURSIVE LStrip(_)
LStrip(s) == IF s # <<>> /\ Head(s) \in Whitespace THEN LStrip(Tail(s)) ELSE s

RECURSIVE RStrip(_)
RStrip(s) ==
    IF s # <<>> /\ s[Len(s)] \in Whitespace THEN RStrip(SubSeq(s, 1, Len(s) - 1)) ELSE s

\* str.strip()
Strip(s) == RStrip(LStrip(s))

\* sep.join(parts)
RECURSIVE Join(_, _)
Join(sep, parts) ==
    IF parts = <<>> THEN <<>>
    ELSE IF Len(parts) = 1 THEN parts[1]
    ELSE parts[1] \o sep \o Join(sep, Tail(parts))

DigitChar(d) == CASE d = 0 -> "0" [] d = 1 -> "1" [] d = 2 -> "2" [] d = 3 -> "3"
                  [] d = 4 -> "4" [] d = 5 -> "5" [] d = 6 -> "6" [] d = 7 -> "7"
                  [] d = 8 -> "8" [] OTHER -> "9"

\* str(n) for n >= 0
RECURSIVE Str(_)
Str(n) == IF n < 10 THEN <<DigitChar(n)>> ELSE Str(n \div 10) \o <<DigitChar(n % 10)>>

(***************************************************************************)
(* Questions: sequences of lower-case words or phrases.                    *)
(***************************************************************************)
Questions == {<<"what", "color", "sky">>, <<"overall", "summary">>, <<"calculate", "2+2">>}

MathExpressions == {"2+2"}

\* The characters of a phrase made of digits and operators.
ExpressionChars(w) == IF w = "7" THEN <<"7">> ELSE <<"2", "+", "2">>

\* The phrases made only of characters of the class [0-9+\-*/().%].
ExprTokens == MathExpressions \cup {"7"}

\* VectorStore.search: the embedding model and the cosine index are an oracle
\* that assigns each (query, row) a distance; ties are broken by identity.
Distance(query, row) ==
    (Len(query) + 3 * row.chunk_index + 5 * HashNum(row.file_hash) + 2 * Len(row.text)) % 7

RankKey(query, row) ==
    Distance(query, row) * 10000 + HashNum(row.file_hash) * 1000 + row.chunk_index

\* A bug variant of the index: the rows come back farthest first.
RECURSIVE Farthest(_, _, _)
Farthest(coll, query, n) ==
    IF n = 0 \/ coll = {} THEN <<>>
    ELSE LET worst == CHOOSE r \in coll : \A o \in coll : RankKey(query, r) >= RankKey(query, o)
         IN <<worst>> \o Farthest(coll \ {worst}, query, n - 1)

\* The n rows nearest to the query, nearest first.
RECURSIVE Nearest(_, _, _)
Nearest(coll, query, n) ==
    IF n = 0 \/ coll = {} THEN <<>>
    ELSE LET best == CHOOSE r \in coll : \A o \in coll : RankKey(query, r) <= RankKey(query, o)
         IN <<best>> \o Nearest(coll \ {best}, query, n - 1)

\* A bug variant of the index: a query of an index without rows raises.
CollectionQueryNoIndex(coll, query, n_results) ==
    IF n_results <= 0 THEN [raises |-> TRUE, error |-> "n_results", rows |-> <<>>]
    ELSE IF coll = {} THEN [raises |-> TRUE, error |-> "no index", rows |-> <<>>]
    ELSE [raises |-> FALSE, error |-> "", rows |-> Nearest(coll, query, n_results)]

\* collection.query (lines 129-132): the index rejects a width that is not
\* positive and otherwise returns as many of the nearest rows as it holds, up
\* to the width.
CollectionQuery(coll, query, n_results) ==
    IF n_results <= 0 THEN [raises |-> TRUE, error |-> "n_results", rows |-> <<>>]
    ELSE [raises |-> FALSE, error |-> "", rows |-> Nearest(coll, query, n_results)]

\* Lines 134-142: the rows are formatted as search results.
FormatResults(rows, query) ==
    [k \in 1..Len(rows) |->
        [text |-> rows[k].text,
         metadata |-> [filename |-> rows[k].filename, filepath |-> rows[k].filepath,
                       chunk_index |-> rows[k].chunk_index, file_hash |-> rows[k].file_hash],
         distance |-> Distance(query, rows[k])]]

\* VectorStore.search (lines 121-153): what a call leaves behind; encode_ok
\* tells whether the embedding model produced the query embedding (line 126).
SearchOutcome(coll, query, n_results, encode_ok) ==
    IF ~encode_ok THEN [raises |-> TRUE, error |-> "encode", results |-> <<>>]
    ELSE LET r == CollectionQuery(coll, query, n_results) IN
         [raises |-> r.raises, error |-> r.error, results |-> FormatResults(r.rows, query)]

\* VectorStore.search as RAGEngine.query sees it when it returns.
Search(coll, query, n_results) == SearchOutcome(coll, query, n_results, TRUE).results

\* The widths and the query texts search is called with on its own.
SearchWidths == {-1, 0, 1, 2, 5}

SearchQueries == {<<"sky">>, <<"what", "color", "sky">>}

\* VectorStore.search called on its own, between other calls.
SearchDirect(query, n_results) ==
    /\ op = "none"
    /\ \E encode_ok \in BOOLEAN :
          LET o == SearchOutcome(collection, query, n_results, encode_ok) IN
          /\ search_ret' = Some([query |-> query, n_results |-> n_results, index |-> collection,
                                 raises |-> o.raises, error |-> o.error, results |-> o.results])
          /\ IF encode_ok THEN UseEmbeddingModel(1) ELSE MayUseEmbeddingModel(1)
    /\ UNCHANGED <<adder2, local_call, added, storeVars, telemetryVars, envVars, toolVars, ctorVars, stats, clear_errors, removed,
                   uuid_counter, op, pc, apc, documents, addLocals, queryLocals, ret, raised, last_add>>


(***************************************************************************)
(* Tool Executor: core/tools.py                                            *)
(***************************************************************************)
\* An argument map that holds none of the arguments a tool reads.
NoParams == [other |-> <<>>]

NoToolOut == [text |-> <<>>, evaluated |-> FALSE]

\* What a call leaves behind: it returns a text or raises an exception with a
\* message; evaluated records whether eval() was reached.
Returns(text) == [raises |-> FALSE, text |-> text, evaluated |-> FALSE]
Raises(message) == [raises |-> TRUE, text |-> message, evaluated |-> FALSE]

\* Line 97: set("0123456789+-*/.()sincotanlogqrtpie")
allowed_chars ==
    {"0", "1", "2", "3", "4", "5", "6", "7", "8", "9", "+", "-", "*", "/", ".", "(", ")",
     "s", "i", "n", "c", "o", "t", "a", "l", "g", "q", "r", "p", "e"}

Digits == {"0", "1", "2", "3", "4", "5", "6", "7", "8", "9"}

DigitValue(c) == CHOOSE d \in 0..9 : DigitChar(d) = c

\* c.lower(); "S" is the upper-case letter of the model.
Lower(c) == IF c = "S" THEN "s" ELSE c

\* expression.replace(" ", "")
RemoveSpaces(s) == SelectSeq(s, LAMBDA c : c # " ")

\* str.replace(old, new): non-overlapping occurrences, left to right.
RECURSIVE Replace(_, _, _)
Replace(s, old, new) ==
    IF Len(s) < Len(old) THEN s
    ELSE IF SubSeq(s, 1, Len(old)) = old
           THEN new \o Replace(SubSeq(s, Len(old) + 1, Len(s)), old, new)
           ELSE <<Head(s)>> \o Replace(Tail(s), old, new)

\* Lines 103-109: the function names are qualified, in this order.
ReplaceFunctions(e) ==
    LET m == <<"m", "a", "t", "h", ".">>
        e1 == Replace(e, <<"s", "i", "n">>, m \o <<"s", "i", "n">>)
        e2 == Replace(e1, <<"c", "o", "s">>, m \o <<"c", "o", "s">>)
        e3 == Replace(e2, <<"t", "a", "n">>, m \o <<"t", "a", "n">>)
        e4 == Replace(e3, <<"l", "o", "g">>, m \o <<"l", "o", "g">>)
        e5 == Replace(e4, <<"s", "q", "r", "t">>, m \o <<"s", "q", "r", "t">>)
        e6 == Replace(e5, <<"p", "i">>, m \o <<"p", "i">>)
    IN Replace(e6, <<"e">>, m \o <<"e">>)

\* s.split("+")
RECURSIVE SplitPlus(_, _)
SplitPlus(s, piece) ==
    IF s = <<>> THEN <<piece>>
    ELSE IF Head(s) = "+" THEN <<piece>> \o SplitPlus(Tail(s), <<>>)
    ELSE SplitPlus(Tail(s), Append(piece, Head(s)))

\* A decimal integer literal: digits, without a leading zero unless all are zeros.
IsNumber(piece) ==
    /\ piece # <<>>
    /\ \A k \in 1..Len(piece) : piece[k] \in Digits
    /\ piece[1] = "0" => \A k \in 1..Len(piece) : piece[k] = "0"

\* An identifier: a letter followed by letters and digits.
IsName(piece) ==
    /\ piece # <<>>
    /\ piece[1] = "S"
    /\ \A k \in 1..Len(piece) : piece[k] \in Digits \cup {"S"}

RECURSIVE NumberValue(_)
NumberValue(piece) ==
    IF piece = <<>> THEN 0
    ELSE 10 * NumberValue(SubSeq(piece, 1, Len(piece) - 1)) + DigitValue(piece[Len(piece)])

RECURSIVE SumOf(_)
SumOf(pieces) ==
    IF pieces = <<>> THEN 0
    ELSE (IF Head(pieces) = <<>> THEN 0 ELSE NumberValue(Head(pieces))) + SumOf(Tail(pieces))

\* eval(expression, {"__builtins__": {}, "math": math}) on the expressions of
\* the model, which are made of digits, "+" and the letter "S": numbers and
\* names joined by binary "+" and prefixed by unary "+".  A piece that is
\* neither (or a trailing "+") is a SyntaxError, a name is a NameError.
PyEval(e) ==
    LET pieces == SplitPlus(e, <<>>)
        operands == SelectSeq(pieces, LAMBDA x : x # <<>>)
    IN IF pieces[Len(pieces)] = <<>> \/ \E k \in 1..Len(operands) : ~IsNumber(operands[k]) /\ ~IsName(operands[k])
         THEN [ok |-> FALSE, value |-> 0, error |-> "invalid syntax"]
       ELSE IF \E k \in 1..Len(operands) : IsName(operands[k])
         THEN [ok |-> FALSE, value |-> 0, error |-> "name is not defined"]
       ELSE [ok |-> TRUE, value |-> SumOf(operands), error |-> ""]

\* ToolRegistry._calculator
Calculator(expression) ==
    LET e == RemoveSpaces(expression) IN
    IF ~\A k \in 1..Len(e) : Lower(e[k]) \in allowed_chars
      THEN Returns(<<"Invalid characters in expression">>)
      ELSE LET r == PyEval(ReplaceFunctions(e)) IN
           [raises |-> FALSE, evaluated |-> TRUE,
            text |-> IF r.ok THEN <<"Result: ">> \o Str(r.value)
                     ELSE <<"Calculation error: ", r.error>>]

\* len(text.split()): maximal runs of characters that are not whitespace.
WordCount(text) ==
    Cardinality({k \in 1..Len(text) : text[k] \notin Whitespace /\ (k = 1 \/ text[k - 1] \in Whitespace)})

\* re.findall(r'\d+(?:\.\d+)?', text)
RECURSIVE DigitRun(_)
DigitRun(s) == IF s # <<>> /\ Head(s) \in Digits THEN <<Head(s)>> \o DigitRun(Tail(s)) ELSE <<>>

RECURSIVE FindNumbers(_)
FindNumbers(s) ==
    IF s = <<>> THEN <<>>
    ELSE IF Head(s) \notin Digits THEN FindNumbers(Tail(s))
    ELSE LET whole == DigitRun(s)
             rest == SubSeq(s, Len(whole) + 1, Len(s))
             frac == IF Len(rest) >= 2 /\ rest[1] = "." /\ rest[2] \in Digits
                       THEN <<".">> \o DigitRun(Tail(rest)) ELSE <<>>
             match == whole \o frac
         IN <<match>> \o FindNumbers(SubSeq(s, Len(match) + 1, Len(s)))

\* re.findall of the e-mail pattern: every match holds an "@", which no text
\* of the model does.
FindEmails(s) == <<>>

\* ToolRegistry._text_analyzer
TextAnalyzer(text, analysis_type) ==
    CASE analysis_type = "word_count" -> Returns(<<"Word count: ">> \o Str(WordCount(text)))
      [] analysis_type = "char_count" -> Returns(<<"Character count: ">> \o Str(Len(text)))
      [] analysis_type = "extract_numbers" ->
            Returns(<<"Numbers found: ">> \o Join(<<",", " ">>, FindNumbers(text)))
      [] analysis_type = "extract_emails" ->
            Returns(<<"Emails found: ">> \o Join(<<",", " ">>, FindEmails(text)))
      [] OTHER -> Returns(<<"Unknown analysis type">>)

\* datetime.strptime(s, "%Y-%m-%d").date() on the date texts of the model: the
\* day of January 2024, or 0 when strptime raises ValueError.
ParseDate(s) == CASE s = "2024-01-01" -> 1 [] s = "2024-01-10" -> 10 [] OTHER -> 0

\* str(date) for a day of January 2024
FormatDate(day) ==
    <<"2", "0", "2", "4", "-", "0", "1", "-">> \o (IF day < 10 THEN <<"0">> ELSE <<>>) \o Str(day)

\* str(n) for an integer n
IntStr(n) == IF n < 0 THEN <<"-">> \o Str(0 - n) ELSE Str(n)

\* ToolRegistry._date_calculator: params["operation"] is read before the try,
\* everything else inside it.
DateCalculator(params) ==
    IF "operation" \notin DOMAIN params THEN Raises(<<"'operation'">>)
    ELSE LET operation == params.operation
             DateError(message) == Returns(<<"Date calculation error: ", message>>)
         IN
         CASE operation = "current_date" -> Returns(<<"Current date: ", "today">>)
           [] operation = "current_time" -> Returns(<<"Current time: ", "now">>)
           [] operation = "date_diff" ->
                IF "date1" \notin DOMAIN params THEN DateError("'date1'")
                ELSE IF ParseDate(params.date1) = 0 THEN DateError("time data does not match format")
                ELSE IF "date2" \notin DOMAIN params THEN DateError("'date2'")
                ELSE IF ParseDate(params.date2) = 0 THEN DateError("time data does not match format")
                ELSE Returns(<<"Date difference: ">> \o IntStr(ParseDate(params.date2) - ParseDate(params.date1))
                                \o <<" days">>)
           [] operation = "add_days" ->
                IF "date1" \notin DOMAIN params THEN DateError("'date1'")
                ELSE IF ParseDate(params.date1) = 0 THEN DateError("time data does not match format")
                ELSE IF "days" \notin DOMAIN params THEN DateError("'days'")
                ELSE IF params.days = NULL THEN DateError("unsupported type for timedelta days component")
                ELSE Returns(<<"Result date: ">> \o FormatDate(ParseDate(params.date1) + params.days[1]))
           [] OTHER -> Returns(<<"Unknown date operation">>)

\* The body of the try block of execute_tool (lines 79-86); reading a missing
\* parameter raises KeyError.
ExecuteToolBody(tool_name_, parameters) ==
    CASE tool_name_ = "calculator" ->
            IF "expression" \in DOMAIN parameters THEN Calculator(parameters.expression)
            ELSE Raises(<<"'expression'">>)
      [] tool_name_ = "date_calculator" -> DateCalculator(parameters)
      [] tool_name_ = "text_analyzer" ->
            IF "text" \notin DOMAIN parameters THEN Raises(<<"'text'">>)
            ELSE IF "analysis_type" \notin DOMAIN parameters THEN Raises(<<"'analysis_type'">>)
            ELSE TextAnalyzer(parameters.text, parameters.analysis_type)
      [] OTHER -> Returns(<<"Unknown tool: ", tool_name_>>)

\* A bug variant of the handler: the exception is passed on.
ExceptPassesOn(outcome) == outcome

\* Lines 87-88: except Exception as e: return f"Tool execution error: {str(e)}"
ExceptToolError(outcome) ==
    IF outcome.raises
      THEN [outcome EXCEPT !.raises = FALSE, !.text = <<"Tool execution error: ">> \o outcome.text]
      ELSE outcome

\* ToolRegistry.execute_tool: what the call leaves behind.
ExecuteToolOutcome(tool_name_, parameters) == ExceptToolError(ExecuteToolBody(tool_name_, parameters))

\* ToolRegistry.execute_tool as its callers in the generators see it.
ExecuteTool(tool_name_, parameters) == ExecuteToolOutcome(tool_name_, parameters).text

\* The characters of the expressions given to the calculator.
ExprAlphabet == {"2", "3", "+", " ", "S", "_"}

Expressions == UNION {[1..n -> ExprAlphabet] : n \in 0..MaxExprLen}

DateTexts == {"2024-01-01", "2024-01-10", "tomorrow"}

ToolTexts == {<<>>, <<"a", " ", "1", "2", ".", "5", " ", "b", "3">>}

\* The (tool name, argument map) pairs execute_tool is called with.
ToolCalls ==
    {<<"calculator", [expression |-> e]>> : e \in Expressions}
    \cup {<<n, NoParams>> : n \in {"calculator", "date_calculator", "text_analyzer", "weather"}}
    \cup {<<"date_calculator", [operation |-> o]>> :
             o \in {"current_date", "current_time", "date_diff", "add_days", "next_week"}}
    \cup {<<"date_calculator", [operation |-> "date_diff", date1 |-> d1]>> : d1 \in DateTexts}
    \cup {<<"date_calculator", [operation |-> "date_diff", date1 |-> d1, date2 |-> d2]>> :
             d1 \in DateTexts, d2 \in DateTexts}
    \cup {<<"date_calculator", [operation |-> "add_days", date1 |-> d1]>> : d1 \in DateTexts}
    \cup {<<"date_calculator", [operation |-> "add_days", date1 |-> d1, days |-> n]>> :
             d1 \in DateTexts, n \in {Some(9), NULL}}
    \cup {<<"text_analyzer", [text |-> t]>> : t \in ToolTexts}
    \cup {<<"text_analyzer", [text |-> t, analysis_type |-> a]>> :
             t \in ToolTexts,
             a \in {"word_count", "char_count", "extract_numbers", "extract_emails", "sentiment"}}

\* A caller invokes execute_tool.
ToolCall(name, parameters) ==
    /\ tpc # "called"
    /\ tpc' = "called" /\ tool_name' = name /\ tool_params' = parameters
    /\ tool_out' = NoToolOut
    /\ UNCHANGED <<memVars, adder2, local_call, added, storeVars, telemetryVars, envVars, ctorVars, stats, search_ret, clear_errors, removed, uuid_counter, op, pc, apc, documents,
                   addLocals, queryLocals, ret, raised, last_add>>

\* execute_tool runs to its end.
ToolExecute ==
    /\ tpc = "called"
    /\ LET outcome == ExecuteToolOutcome(tool_name, tool_params) IN
         /\ tpc' = IF outcome.raises THEN "raised" ELSE "returned"
         /\ tool_out' = [text |-> outcome.text, evaluated |-> outcome.evaluated]
    /\ UNCHANGED <<memVars, adder2, local_call, added, storeVars, telemetryVars, envVars, ctorVars, stats, search_ret, clear_errors, removed, uuid_counter, op, pc, apc, documents,
                   addLocals, queryLocals, ret, raised, last_add, tool_name, tool_params>>

(***************************************************************************)
(* Remote generator: core/gemini_processor.py                              *)
(***************************************************************************)
Apology == <<"I couldn't generate a response. Please try rephrasing your question.">>

GeminiError == <<"Error processing with Gemini: ", "api error">>

TextEvent(t) == [kind |-> "text", text |-> t]
CallEvent(n, a) == [kind |-> "call", name |-> n, args |-> a]
ErrorEvent == [kind |-> "error"]

\* What the remote model can send back for one generate_content call: text
\* chunks / parts, function calls, and possibly an API error.
GeminiOutputs ==
    {<<TextEvent(<<"blue">>)>>,
     <<>>,
     <<TextEvent(<<" ">>)>>,
     <<TextEvent(<<"sum", " ">>), CallEvent("calculator", [expression |-> <<"2", "+", "2">>])>>,
     <<TextEvent(<<"blue", "\n">>), ErrorEvent>>}

\* GeminiProcessor._execute_function_call
ExecuteFunctionCall(function_call) == ExecuteTool(function_call.name, function_call.args)

\* f"\n\n[Tool: {name}] {tool_result}\n\n"
ToolMarker(name, tool_result) ==
    <<"\n", "\n", "[Tool: ", name, "] ">> \o tool_result \o <<"\n", "\n">>

\* The streaming loop (lines 99-111): the text accumulated and the fragments
\* passed to stream_callback, up to the first error.
RECURSIVE StreamLoop(_, _, _)
StreamLoop(events, response_text, frags) ==
    IF events = <<>> THEN [text |-> response_text, fragments |-> frags, error |-> FALSE]
    ELSE LET chunk == Head(events) IN
         CASE chunk.kind = "error" -> [text |-> response_text, fragments |-> frags, error |-> TRUE]
           [] chunk.kind = "text" ->
                IF chunk.text # <<>>
                  THEN StreamLoop(Tail(events), response_text \o chunk.text, Append(frags, chunk.text))
                  ELSE StreamLoop(Tail(events), response_text, frags)
           [] OTHER ->
                LET m == ToolMarker(chunk.name, ExecuteFunctionCall(chunk))
                IN StreamLoop(Tail(events), response_text \o m, Append(frags, m))

\* The loop over candidate.content.parts (lines 128-133).
RECURSIVE ResponseParts(_)
ResponseParts(events) ==
    IF events = <<>> THEN <<>>
    ELSE LET part == Head(events) IN
         IF part.kind = "text"
           THEN (IF part.text # <<>> THEN <<part.text>> ELSE <<>>) \o ResponseParts(Tail(events))
           ELSE <<ToolMarker(part.name, ExecuteFunctionCall(part))>> \o ResponseParts(Tail(events))

\* GeminiProcessor.process_question (lines 95-151).
GeminiProcessQuestion(events, stream_callback) ==
    IF stream_callback
      THEN LET r == StreamLoop(events, <<>>, <<>>) IN
           [response |-> IF r.error THEN GeminiError
                         ELSE IF r.text # <<>> THEN Strip(r.text) ELSE Apology,
            fragments |-> r.fragments]
      ELSE [response |-> IF \E k \in 1..Len(events) : events[k].kind = "error" THEN GeminiError
                         ELSE IF ResponseParts(events) # <<>>
                                THEN Strip(Concat(ResponseParts(events)))
                                ELSE Apology,
            fragments |-> <<>>]

(***************************************************************************)
(* Local generator: core/nlp_processor.py                                  *)
(***************************************************************************)
\* The cue phrases that occur in a phrase of a question besides itself
\* ("age" is part of "page").
Phrases(t) ==
    {t} \cup CASE t = "word count" -> {"word", "count"}
               [] t = "current date" -> {"date"}
               [] t = "page" -> {"age"}
               [] OTHER -> {}

\* word in question_lower
InQuestion(q, word) == \E k \in 1..Len(q) : word \in Phrases(q[k])

math_patterns == {"calculate", "compute", "math", "what is", "how much", "add", "subtract",
                  "multiply", "divide"}

date_patterns == {"date", "today", "current time", "what time", "days between", "add days",
                  "subtract days"}

text_patterns == {"word count", "character count", "count words", "count characters",
                  "how many words", "how many characters"}

\* re.findall(r'[0-9+\-*/().\s%]+', question) without the runs of whitespace
\* alone: consecutive phrases of the class form one run, with the space
\* between them.
RECURSIVE MathRuns(_, _)
MathRuns(q, run) ==
    IF q = <<>> THEN (IF run = <<>> THEN <<>> ELSE <<run>>)
    ELSE IF Head(q) \in ExprTokens
      THEN MathRuns(Tail(q), (IF run = <<>> THEN <<>> ELSE run \o <<" ">>) \o ExpressionChars(Head(q)))
      ELSE (IF run = <<>> THEN <<>> ELSE <<run>>) \o MathRuns(Tail(q), <<>>)

\* Line 286: a calculation cue word or a character of the class.
MathTrigger(q) ==
    \/ \E word \in math_patterns : InQuestion(q, word)
    \/ \E k \in 1..Len(q) : q[k] \in ExprTokens

\* Lines 288-293: the first run that holds an operator and more than two
\* characters is given to the calculator.
MathResult(q) ==
    LET usable == SelectSeq(MathRuns(q, <<>>),
                            LAMBDA expr : (\E k \in 1..Len(expr) : expr[k] \in {"+", "-", "*", "/", "%"})
                                          /\ Len(Strip(expr)) > 2)
    IN IF MathTrigger(q) /\ usable # <<>>
         THEN <<"Calculation: ">> \o
              ExecuteTool("calculator",
                          [expression |-> Strip(Replace(usable[1], <<"%">>, <<"/", "1", "0", "0">>))])
         ELSE <<>>

DateTrigger(q) == \E word \in date_patterns : InQuestion(q, word)

\* Lines 297-310; no question of the model holds two dates, so "days between"
\* runs no tool.
DateResult(q) ==
    IF ~DateTrigger(q) THEN <<>>
    ELSE IF InQuestion(q, "today") \/ InQuestion(q, "current date")
      THEN ExecuteTool("date_calculator", [operation |-> "current_date"])
    ELSE IF InQuestion(q, "current time") \/ InQuestion(q, "what time")
      THEN ExecuteTool("date_calculator", [operation |-> "current_time"])
    ELSE <<>>

TextTrigger(q) == \E pattern \in text_patterns : InQuestion(q, pattern)

\* Lines 314-319
TextResult(q, ctx) ==
    IF ~TextTrigger(q) \/ ctx = <<>> THEN <<>>
    ELSE IF InQuestion(q, "word") \/ InQuestion(q, "words")
      THEN ExecuteTool("text_analyzer", [text |-> ctx, analysis_type |-> "word_count"])
    ELSE IF InQuestion(q, "character") \/ InQuestion(q, "characters") \/ InQuestion(q, "char")
      THEN ExecuteTool("text_analyzer", [text |-> ctx, analysis_type |-> "char_count"])
    ELSE <<>>

\* Lines 322-327
ExtractTrigger(q, ctx) ==
    /\ InQuestion(q, "extract") /\ ctx # <<>>
    /\ InQuestion(q, "email") \/ InQuestion(q, "number")

ExtractResult(q, ctx) ==
    IF InQuestion(q, "email") /\ InQuestion(q, "extract") /\ ctx # <<>>
      THEN ExecuteTool("text_analyzer", [text |-> ctx, analysis_type |-> "extract_emails"])
    ELSE IF InQuestion(q, "number") /\ InQuestion(q, "extract") /\ ctx # <<>>
      THEN ExecuteTool("text_analyzer", [text |-> ctx, analysis_type |-> "extract_numbers"])
    ELSE <<>>

\* Whether one of the keyword and regex triggers of the tool check matches.
ToolTrigger(q, ctx) ==
    MathTrigger(q) \/ DateTrigger(q) \/ TextTrigger(q) \/ ExtractTrigger(q, ctx)

\* NLPProcessor._check_and_execute_tools; the result None is the empty text,
\* which the caller's truth test treats alike.
CheckAndExecuteTools(q, ctx) ==
    IF MathResult(q) # <<>> THEN MathResult(q)
    ELSE IF DateResult(q) # <<>> THEN DateResult(q)
    ELSE IF TextResult(q, ctx) # <<>> THEN TextResult(q, ctx)
    ELSE ExtractResult(q, ctx)

\* NLPProcessor._detect_question_type
DetectQuestionType(q) ==
    CASE (\E word \in {"summary", "summarize", "overview", "brief", "main points"} : InQuestion(q, word)) -> "summary"
      [] (\E word \in {"how many", "how much", "number", "count", "age", "years", "percent", "percentage"} : InQuestion(q, word)) -> "numerical"
      [] (\E word \in {"what is", "define", "definition", "meaning", "means"} : InQuestion(q, word)) -> "definition"
      [] (\E word \in {"compare", "difference", "versus", "vs", "better", "worse"} : InQuestion(q, word)) -> "comparison"
      [] OTHER -> "factual"

\* The texts a category handler can return: its header followed by sentences of
\* the context, or its fixed not-found message.
HandlerAnswers(question_type, ctx) ==
    CASE question_type = "summary" -> {<<"Summary:", "\n", "\n">> \o ctx}
      [] question_type = "numerical" ->
            {<<"Numerical information found:", "\n", "\n">> \o ctx,
             <<"No specific numerical information found for your question.">>}
      [] question_type = "definition" ->
            {<<"Definition of ">> \o ctx,
             <<"No clear definition found for the requested terms in the documents.">>}
      [] question_type = "comparison" ->
            {<<"Comparison information:", "\n", "\n">> \o ctx,
             <<"I couldn't find relevant information to answer your question.">>}
      [] OTHER ->
            {<<"Based on the documents:", "\n">> \o ctx,
             <<"I couldn't find specific information to answer your question.">>}

\* NLPProcessor.process_question: the outcomes of one call.  A tool result is
\* returned (and passed to stream_callback when one is given) before anything
\* else; otherwise the sentence tokenizer runs, which raises LookupError when
\* its data is not installed, and nothing in process_question catches it.
NLPOutcomes(q, ctx, stream_callback, tokenizer_ok) ==
    LET tool_result == CheckAndExecuteTools(q, ctx) IN
    IF tool_result # <<>>
      THEN {[raises |-> FALSE, response |-> tool_result,
             fragments |-> IF stream_callback THEN <<tool_result>> ELSE <<>>]}
    ELSE IF ~tokenizer_ok
      THEN {[raises |-> TRUE, response |-> <<>>, fragments |-> <<>>]}
    ELSE {[raises |-> FALSE, response |-> a, fragments |-> <<>>] :
             a \in HandlerAnswers(DetectQuestionType(q), ctx)}

\* local_call before any call
NoLocalCall == [stage |-> "idle", question |-> <<>>, context |-> <<>>, stream_callback |-> FALSE,
                tool_result |-> <<>>, question_type |-> NULL, response |-> <<>>,
                fragments |-> <<>>]

\* The questions and the contexts process_question is called with on its own.
LocalQuestions ==
    {<<"calculate", "2+2">>, <<"what is", "sky">>, <<"page", "7">>, <<"today">>,
     <<"date", "sky">>, <<"what time">>, <<"word count">>, <<"extract", "number">>,
     <<"overall", "summary">>, <<"compare", "sky">>}

LocalContexts == {<<>>, <<"s", "k", "y", " ", "1", "2">>}

\* A caller invokes process_question.
ProcessQuestionCall(q, ctx, stream_callback) ==
    /\ local_call.stage \in {"idle", "returned", "raised"}
    /\ local_call' = [NoLocalCall EXCEPT !.stage = "called", !.question = q, !.context = ctx,
                                         !.stream_callback = stream_callback]
    /\ UNCHANGED <<memVars, adder2, added, storeVars, telemetryVars, envVars, toolVars, ctorVars, stats, search_ret, clear_errors, removed,
                   uuid_counter, op, pc, apc, documents, addLocals, queryLocals, ret, raised, last_add>>

\* A bug variant of process_question: the classifier runs first, and the tool
\* check after it.
ProcessQuestionClassifiesFirst ==
    /\ local_call.stage = "called"
    /\ LET tool_result == CheckAndExecuteTools(local_call.question, local_call.context) IN
         local_call' = [local_call EXCEPT
                           !.tool_result = tool_result,
                           !.question_type = Some(DetectQuestionType(local_call.question)),
                           !.response = tool_result,
                           !.fragments = IF tool_result # <<>> /\ local_call.stream_callback
                                           THEN <<tool_result>> ELSE <<>>,
                           !.stage = IF tool_result # <<>> THEN "returned" ELSE "tools"]
    /\ UNCHANGED <<memVars, adder2, added, storeVars, telemetryVars, envVars, toolVars, ctorVars, stats, search_ret, clear_errors, removed,
                   uuid_counter, op, pc, apc, documents, addLocals, queryLocals, ret, raised, last_add>>

\* Lines 46-50: the tool check; its result, if any, is returned.
ProcessQuestionTools ==
    /\ local_call.stage = "called"
    /\ LET tool_result == CheckAndExecuteTools(local_call.question, local_call.context) IN
         local_call' = [local_call EXCEPT
                           !.tool_result = tool_result,
                           !.response = tool_result,
                           !.fragments = IF tool_result # <<>> /\ local_call.stream_callback
                                           THEN <<tool_result>> ELSE <<>>,
                           !.stage = IF tool_result # <<>> THEN "returned" ELSE "tools"]
    /\ UNCHANGED <<memVars, adder2, added, storeVars, telemetryVars, envVars, toolVars, ctorVars, stats, search_ret, clear_errors, removed,
                   uuid_counter, op, pc, apc, documents, addLocals, queryLocals, ret, raised, last_add>>

\* Lines 53-71: the context is split into sentences (LookupError without the
\* tokenizer data), the question is classified and the handler of its category
\* answers.
ProcessQuestionClassify ==
    /\ local_call.stage = "tools"
    /\ IF ~nltk_data
         THEN local_call' = [local_call EXCEPT !.stage = "raised"]
         ELSE \E a \in HandlerAnswers(DetectQuestionType(local_call.question), local_call.context) :
                 local_call' = [local_call EXCEPT
                                   !.question_type = Some(DetectQuestionType(local_call.question)),
                                   !.response = a, !.stage = "returned"]
    /\ UNCHANGED <<memVars, adder2, added, storeVars, telemetryVars, envVars, toolVars, ctorVars, stats, search_ret, clear_errors, removed,
                   uuid_counter, op, pc, apc, documents, addLocals, queryLocals, ret, raised, last_add>>


(***************************************************************************)
(* Telemetry Store: core/analytics.py, core/logger.py                      *)
(***************************************************************************)
\* INSERT OR REPLACE INTO query_metrics: query_id is the primary key.
LogQuery(table, metrics) ==
    {r \in table : r.query_id # metrics.query_id} \cup {metrics}

\* A bug variant of log_query_complete: context_length and chunk_count are
\* passed in each other's place.
LogQueryCompleteSwapped(table, qid, q, resp, context_length, chunk_count, srcs, search_distances) ==
    {r \in table : r.query_id # qid} \cup
    {[query_id |-> qid, question |-> q, response |-> resp,
      context_length |-> chunk_count, chunk_count |-> context_length,
      sources |-> srcs, search_distances |-> search_distances,
      user_rating |-> NULL, feedback |-> NULL]}

\* RAGLogger.log_query_complete: build the QueryMetrics (rating and feedback
\* default to None) and log it.  Timestamps and durations are left out.
LogQueryComplete(table, qid, q, resp, context_length, chunk_count, srcs, search_distances) ==
    LogQuery(table, [query_id |-> qid, question |-> q, response |-> resp,
                     context_length |-> context_length, chunk_count |-> chunk_count,
                     sources |-> srcs, search_distances |-> search_distances,
                     user_rating |-> NULL, feedback |-> NULL])

\* UPDATE query_metrics SET user_rating = ?, feedback = ? WHERE query_id = ?
UpdateFeedbackRows(table, qid, rating, feedback) ==
    {IF r.query_id = qid THEN [r EXCEPT !.user_rating = rating, !.feedback = feedback]
     ELSE r : r \in table}

\* A bug variant of increment_document_usage: the UPDATE has no WHERE clause.
IncrementEveryDocument(table, filenames) ==
    {[r EXCEPT !.usage_count = @ + 1] : r \in table}

\* UPDATE document_metrics SET usage_count = usage_count + 1 WHERE filename = ?
\* executed once for each of the (distinct) filenames.
IncrementDocumentUsage(table, filenames) ==
    {IF r.filename \in filenames THEN [r EXCEPT !.usage_count = @ + 1] ELSE r : r \in table}

\* INSERT OR REPLACE INTO document_metrics (doc_id, filename, ..., upload_time):
\* doc_id is the primary key and usage_count takes its default 0.
LogDocumentRow(table, doc_id, filename, chunk_count) ==
    {r \in table : r.doc_id # doc_id} \cup
    {[doc_id |-> doc_id, filename |-> filename, chunk_count |-> chunk_count, usage_count |-> 0]}

Ratings == {4, 5}
Feedbacks == {NULL, Some("good")}

\* AnalyticsEngine.update_user_feedback(query_id, rating, feedback=None)
UpdateUserFeedback(qid, rating, feedback) ==
    /\ op = "none"
    /\ query_metrics' = UpdateFeedbackRows(query_metrics, qid, Some(rating), feedback)
    /\ UNCHANGED <<memVars, adder2, local_call, added, storeVars, document_metrics, envVars, toolVars, ctorVars, stats, search_ret, clear_errors, removed, uuid_counter, op, pc, apc, documents,
                   addLocals, queryLocals, ret, raised, last_add>>

\* DocumentProcessor.process_document (lines 62-69): the processed file is logged.
ProcessDocument(doc) ==
    /\ op = "none"
    /\ document_metrics' = LogDocumentRow(document_metrics, doc.file_hash, doc.filename, Len(doc.chunks))
    /\ UNCHANGED <<memVars, adder2, local_call, added, storeVars, query_metrics, envVars, toolVars, ctorVars, stats, search_ret, clear_errors, removed, uuid_counter, op, pc, apc, documents,
                   addLocals, queryLocals, ret, raised, last_add>>


(***************************************************************************)
(* Query Orchestrator: core/rag_engine.py                                  *)
(***************************************************************************)
NoInfoMessage == <<"I don't have any relevant information to answer your question. Please upload some documents first.">>

AggregationCues == {"total", "overall", "summary", "all", "entire"}

\* Line 56: retrieval width.
NResults(q) == IF Range(q) \cap AggregationCues # {} THEN 8 ELSE 5

\* f"[Context {i+1}]: {result['text']}" for the 0-based position i
ContextPart(i, result) ==
    <<"[", "C", "o", "n", "t", "e", "x", "t", " ">> \o Str(i + 1) \o <<"]", ":", " ">> \o result.text

\* Lines 64-67: "\n\n".join(context_parts)
AssembleContext(results) ==
    Join(<<"\n", "\n">>, [k \in 1..Len(results) |-> ContextPart(k - 1, results[k])])

\* Line 68: the set of filenames of the results.
SourceSet(results) == {results[k].metadata.filename : k \in 1..Len(results)}

Encodings == {"utf-8", "cp1252"}

\* The characters cp1252 has no code for, among those the program prints.
NotInCp1252 == {"U+2713"}

\* print(line): UnicodeEncodeError when sys.stdout cannot encode a character.
PrintRaises(line, encoding) ==
    encoding = "cp1252" /\ \E k \in 1..Len(line) : line[k] \in NotInCp1252

\* Line 29: the check mark U+2713 followed by the message.
FallbackLine == <<"U+2713", " Falling back to local NLP processor">>

\* GeminiProcessor.__init__ (gemini_processor.py lines 12-48): ValueError without a
\* key, and any failure of configure or of the probe is raised again.
GeminiInitRaises == ~api_key \/ ~api_ok

\* RAGEngine.__init__, lines 20-24: GeminiProcessor() is constructed; when it
\* raises, control passes to the except clause.
ConstructRemote ==
    /\ cpc = "new"
    /\ gemini_inits' = gemini_inits + 1
    /\ IF GeminiInitRaises
         THEN cpc' = "except" /\ using_gemini' = using_gemini
         ELSE cpc' = "ready" /\ using_gemini' = TRUE
    /\ UNCHANGED <<memVars, adder2, local_call, added, storeVars, telemetryVars, nltk_data, toolVars, api_key, api_ok, stdout_encoding,
                   stats, search_ret, clear_errors, removed, uuid_counter, op, pc, apc, documents, addLocals, queryLocals, ret,
                   raised, last_add>>

\* RAGEngine.__init__, lines 25-32: the warning is logged and printed, the
\* fallback line is printed, then NLPProcessor() is constructed.
ConstructFallback ==
    /\ cpc = "except"
    /\ IF PrintRaises(FallbackLine, stdout_encoding)
         THEN cpc' = "raised" /\ using_gemini' = using_gemini
         ELSE cpc' = "ready" /\ using_gemini' = FALSE
    /\ UNCHANGED <<memVars, adder2, local_call, added, storeVars, telemetryVars, nltk_data, toolVars, gemini_inits, api_key, api_ok,
                   stdout_encoding, stats, search_ret, clear_errors, removed, uuid_counter, op, pc, apc, documents, addLocals,
                   queryLocals, ret, raised, last_add>>

\* RAGEngine.get_stats (lines 123-141), without the memory figures.
GetStats ==
    /\ op = "none"
    /\ stats' = Some([document_chunks |-> Cardinality(collection),
                      model_type |-> IF using_gemini THEN "Google Gemini Pro (Active)"
                                     ELSE "Google Gemini Pro (Failed)",
                      generation |-> IF using_gemini THEN "AI-Powered Response Generation"
                                     ELSE "Pattern-based NLP"])
    /\ UNCHANGED <<memVars, adder2, local_call, added, storeVars, telemetryVars, envVars, toolVars, ctorVars, search_ret, clear_errors,
                   removed, uuid_counter, op, pc, apc, documents, addLocals, queryLocals, ret,
                   raised, last_add>>

\* RAGEngine.query, lines 47-52: a fresh query_id is drawn; when documents are
\* given, add_documents runs first.
QueryCall(q, docs, stream_callback) ==
    /\ op = "none"
    /\ uuid_counter < MaxQueries
    /\ stream_callback => docs # <<>>
    /\ op' = "query" /\ pc' = "start"
    /\ uuid_counter' = uuid_counter + 1
    /\ query_id' = uuid_counter + 1
    /\ question' = q /\ documents' = docs /\ streaming' = stream_callback
    /\ apc' = IF docs # <<>> THEN "get" ELSE "none"
    /\ ids' = <<>> /\ bi' = 0 /\ bj' = 0 /\ submits' = <<>> /\ errors_logged' = 0
    /\ search_results' = <<>> /\ context' = <<>> /\ sources' = {} /\ response' = <<>>
    /\ gen_calls' = 0 /\ fragments' = <<>>
    /\ telemetry_at_call' = <<query_metrics, document_metrics>>
    /\ ret' = <<>> /\ raised' = "no"
    /\ last_add' = IF last_add.docs = docs THEN last_add ELSE NoAdd
    /\ removed' = NULL
    /\ added' = IF docs # <<>> THEN Some(AddBegins(docs, collection)) ELSE added
    /\ UNCHANGED <<memVars, adder2, local_call, storeVars, telemetryVars, envVars, toolVars, ctorVars, stats, search_ret, clear_errors>>

\* A bug variant of query(): the search runs before the documents are added.
QuerySearchBeforeAdd ==
    /\ op = "query" /\ pc = "start"
    /\ search_results' = Search(collection, question, NResults(question))
    /\ pc' = "search"
    /\ UseEmbeddingModel(1)
    /\ UNCHANGED <<adder2, local_call, added, storeVars, telemetryVars, envVars, toolVars, ctorVars, stats, search_ret, clear_errors, removed, uuid_counter, op, apc, documents,
                   addLocals, question, streaming, context, sources, response, query_id,
                   gen_calls, fragments, telemetry_at_call, ret, raised, last_add>>

\* Lines 55-58: the search returns.
QuerySearch ==
    /\ op = "query" /\ pc = "start" /\ apc = "none"
    /\ search_results' = Search(collection, question, NResults(question))
    /\ pc' = "search"
    /\ UseEmbeddingModel(1)
    /\ UNCHANGED <<adder2, local_call, added, storeVars, telemetryVars, envVars, toolVars, ctorVars, stats, search_ret, clear_errors, removed, uuid_counter, op, apc, documents,
                   addLocals, question, streaming, context, sources, response, query_id,
                   gen_calls, fragments, telemetry_at_call, ret, raised, last_add>>

\* The embedding model or the index raises inside search; query() does not catch it.
QuerySearchRaises ==
    /\ op = "query" /\ pc = "start" /\ apc = "none"
    /\ pc' = "raised" /\ raised' = "search" /\ op' = "none"
    /\ question' = <<>> /\ documents' = <<>> /\ streaming' = FALSE
    /\ search_results' = <<>> /\ context' = <<>> /\ sources' = {} /\ response' = <<>>
    /\ telemetry_at_call' = NoTelemetry
    /\ MayUseEmbeddingModel(1)
    /\ UNCHANGED <<adder2, local_call, added, storeVars, telemetryVars, envVars, toolVars, ctorVars, stats, search_ret, clear_errors, removed, uuid_counter, apc, addLocals,
                   query_id, gen_calls, fragments, ret, last_add>>

\* A bug variant of the short circuit: a Query Record is written before returning.
QueryNoResultsLogged ==
    /\ op = "query" /\ pc = "search"
    /\ search_results = <<>>
    /\ ret' = <<NoInfoMessage, {}>>
    /\ pc' = "fail" /\ op' = "none"
    /\ query_metrics' = {r \in query_metrics : r.query_id # query_id} \cup
          {[query_id |-> query_id, question |-> question, response |-> NoInfoMessage,
            context_length |-> 0, chunk_count |-> 0, sources |-> {}, search_distances |-> <<>>,
            user_rating |-> NULL, feedback |-> NULL]}
    /\ question' = <<>> /\ documents' = <<>> /\ streaming' = FALSE
    /\ search_results' = <<>> /\ context' = <<>> /\ sources' = {} /\ response' = <<>>
    /\ telemetry_at_call' = NoTelemetry
    /\ UNCHANGED <<memVars, adder2, local_call, added, storeVars, document_metrics, envVars, toolVars, ctorVars, stats, search_ret, clear_errors, removed, uuid_counter, apc, addLocals,
                   query_id, gen_calls, fragments, raised, last_add>>

\* Lines 60-61: nothing was retrieved.
QueryNoResults ==
    /\ op = "query" /\ pc = "search"
    /\ search_results = <<>>
    /\ ret' = <<NoInfoMessage, {}>>
    /\ pc' = "fail" /\ op' = "none"
    /\ question' = <<>> /\ documents' = <<>> /\ streaming' = FALSE
    /\ search_results' = <<>> /\ context' = <<>> /\ sources' = {} /\ response' = <<>>
    /\ telemetry_at_call' = NoTelemetry
    /\ UNCHANGED <<memVars, adder2, local_call, added, storeVars, telemetryVars, envVars, toolVars, ctorVars, stats, search_ret, clear_errors, removed, uuid_counter, apc, addLocals,
                   query_id, gen_calls, fragments, raised, last_add>>

\* Lines 75-81: the active processor's process_question is called; both
\* variants declare stream_callback, so both receive it.
ProcessorOutcomes(q, ctx, stream_callback) ==
    IF using_gemini
      THEN {[raises |-> FALSE, response |-> g.response, fragments |-> g.fragments] :
               g \in {GeminiProcessQuestion(events, stream_callback) : events \in GeminiOutputs}}
      ELSE NLPOutcomes(q, ctx, stream_callback, nltk_data)

\* A bug variant of the generation step: after an error of the remote generator
\* the engine switches to the local variant.
QueryGenerateFallingBack ==
    /\ op = "query" /\ pc = "search"
    /\ search_results # <<>>
    /\ gen_calls' = gen_calls + 1
    /\ \E o \in ProcessorOutcomes(question, AssembleContext(search_results), streaming) :
          /\ fragments' = o.fragments
          /\ using_gemini' = (using_gemini /\ o.response # GeminiError)
          /\ IF o.raises
               THEN /\ pc' = "raised" /\ raised' = "generate" /\ op' = "none"
                    /\ question' = <<>> /\ documents' = <<>> /\ streaming' = FALSE
                    /\ search_results' = <<>> /\ context' = <<>> /\ sources' = {}
                    /\ response' = <<>> /\ telemetry_at_call' = NoTelemetry
               ELSE /\ pc' = "generate" /\ raised' = raised /\ op' = op
                    /\ context' = AssembleContext(search_results)
                    /\ sources' = SourceSet(search_results)
                    /\ response' = o.response
                    /\ UNCHANGED <<question, documents, streaming, search_results,
                                   telemetry_at_call>>
    /\ UNCHANGED <<memVars, adder2, local_call, added, storeVars, telemetryVars, nltk_data, toolVars, ctorVars, stats, search_ret, clear_errors, removed, uuid_counter, apc, addLocals,
                   query_id, ret, last_add>>

\* Lines 63-82: context and sources are assembled and the generator runs.
QueryGenerate ==
    /\ op = "query" /\ pc = "search"
    /\ search_results # <<>>
    /\ gen_calls' = gen_calls + 1
    /\ \E o \in ProcessorOutcomes(question, AssembleContext(search_results), streaming) :
          /\ fragments' = o.fragments
          /\ IF o.raises
               THEN /\ pc' = "raised" /\ raised' = "generate" /\ op' = "none"
                    /\ question' = <<>> /\ documents' = <<>> /\ streaming' = FALSE
                    /\ search_results' = <<>> /\ context' = <<>> /\ sources' = {}
                    /\ response' = <<>> /\ telemetry_at_call' = NoTelemetry
               ELSE /\ pc' = "generate" /\ raised' = raised /\ op' = op
                    /\ context' = AssembleContext(search_results)
                    /\ sources' = SourceSet(search_results)
                    /\ response' = o.response
                    /\ UNCHANGED <<question, documents, streaming, search_results,
                                   telemetry_at_call>>
    /\ UNCHANGED <<memVars, adder2, local_call, added, storeVars, telemetryVars, envVars, toolVars, ctorVars, stats, search_ret, clear_errors, removed, uuid_counter, apc, addLocals,
                   query_id, ret, last_add>>

\* Lines 86-106: the Query Record is written and the usage counters are incremented.
QueryLog ==
    /\ op = "query" /\ pc = "generate"
    /\ query_metrics' =
          LogQueryComplete(query_metrics, query_id, question, response, Len(context),
                           Len(search_results), sources,
                           [k \in 1..Len(search_results) |-> search_results[k].distance])
    /\ document_metrics' = IF sources # {} THEN IncrementDocumentUsage(document_metrics, sources)
                           ELSE document_metrics
    /\ pc' = "log"
    /\ UNCHANGED <<memVars, adder2, local_call, added, storeVars, envVars, toolVars, ctorVars, stats, search_ret, clear_errors, removed, uuid_counter, op, apc, documents, addLocals,
                   queryLocals, ret, raised, last_add>>

\* Lines 109-114: the metric lines are written and the triple is returned.
QueryReturn ==
    /\ op = "query" /\ pc = "log"
    /\ ret' = <<response, sources, query_id>>
    /\ pc' = "done" /\ op' = "none"
    /\ question' = <<>> /\ documents' = <<>> /\ streaming' = FALSE
    /\ search_results' = <<>> /\ context' = <<>> /\ sources' = {} /\ response' = <<>>
    /\ telemetry_at_call' = NoTelemetry
    /\ UNCHANGED <<memVars, adder2, local_call, added, storeVars, telemetryVars, envVars, toolVars, ctorVars, stats, search_ret, clear_errors, removed, uuid_counter, apc, addLocals,
                   query_id, gen_calls, fragments, raised, last_add>>

(***************************************************************************)
(* Initial state and specifications.                                       *)
(***************************************************************************)
\* Nothing is stored and no call is in flight.
NoCalls ==
    /\ collection = {}
    /\ query_metrics = {} /\ document_metrics = {}
    /\ uuid_counter = 0
    /\ op = "none" /\ pc = "idle" /\ apc = "none"
    /\ question = <<>> /\ documents = <<>> /\ streaming = FALSE
    /\ ids = <<>> /\ bi = 0 /\ bj = 0
    /\ search_results = <<>> /\ context = <<>> /\ sources = {} /\ response = <<>>
    /\ query_id = 0 /\ ret = <<>> /\ raised = "no"
    /\ gen_calls = 0 /\ fragments = <<>>
    /\ submits = <<>> /\ errors_logged = 0
    /\ telemetry_at_call = NoTelemetry
    /\ last_add = NoAdd
    /\ tpc = "idle" /\ tool_name = "" /\ tool_params = NoParams /\ tool_out = NoToolOut
    /\ added = NULL
    /\ local_call = NoLocalCall
    /\ adder2 = NoAdder
    /\ NoModels
    /\ stats = NULL /\ search_ret = NULL /\ clear_errors = 0 /\ removed = NULL

\* After RAGEngine.__init__ on an empty data directory: the generator variant
\* is fixed, the collection and the telemetry tables are empty.
Init ==
    /\ NoCalls
    /\ using_gemini \in BOOLEAN
    /\ nltk_data \in BOOLEAN
    /\ using_gemini => nltk_data
    /\ cpc = "ready" /\ gemini_inits = 1
    /\ api_key = using_gemini /\ api_ok = using_gemini
    /\ stdout_encoding = "utf-8"

\* Before RAGEngine.__init__, in any environment.
InitNew ==
    /\ NoCalls
    /\ using_gemini = FALSE
    /\ nltk_data \in BOOLEAN
    /\ cpc = "new" /\ gemini_inits = 0
    /\ api_key \in BOOLEAN /\ api_ok \in BOOLEAN
    /\ stdout_encoding \in Encodings

\* The documents the chat thread passes along with a question.
QueryDocLists == {<<>>, <<DocA>>, <<DocACopy, DocAEdited>>}

\* The files processed by the document panel.
ProcessedDocs == {DocA, DocAEdited}

AddSteps ==
    \/ AddCollect
    \/ AddBatchStored
    \/ AddBatchFailed
    \/ AddSmallStored
    \/ AddSmallFailed
    \/ AddReturn

QuerySteps ==
    \/ QuerySearch
    \/ QuerySearchRaises
    \/ QueryNoResults
    \/ QueryGenerate
    \/ QueryLog
    \/ QueryReturn

\* The chunk store driven directly: add_documents, remove_document, clear.
NextStore ==
    \/ \E docs \in DocLists : AddDocumentsCall(docs)
    \/ AddSteps
    \/ ClearDocuments
    \/ \E h \in Hashes : RemoveDocument(h)

\* The chunk store does not depend on the generator variant.
InitStore == Init /\ using_gemini

SpecStore == InitStore /\ [][NextStore]_vars

\* The documents added to the store that is searched.
SearchDocLists == {<<DocA>>, <<DocAEdited>>, <<DocACopy, DocAEdited>>}

\* The chunk store added to, emptied and searched.
NextSearch ==
    \/ \E docs \in SearchDocLists : AddDocumentsCall(docs)
    \/ AddSteps
    \/ ClearDocuments
    \/ \E h \in Hashes : RemoveDocument(h)
    \/ \E q \in SearchQueries, n \in SearchWidths : SearchDirect(q, n)

SpecSearch == InitStore /\ [][NextSearch]_vars

\* The orchestrator as the application drives it: documents are processed and
\* passed along with each question, and the store is cleared.
Next ==
    \/ \E q \in Questions, docs \in QueryDocLists, cb \in BOOLEAN : QueryCall(q, docs, cb)
    \/ AddSteps
    \/ QuerySteps
    \/ \E doc \in ProcessedDocs : ProcessDocument(doc)
    \/ ClearDocuments

Spec == Init /\ [][Next]_vars

\* The documents passed along with a question to an engine just constructed.
EngineDocLists == {<<>>, <<DocA>>}

\* An engine from its construction on: once __init__ has returned, questions
\* are asked, the store is cleared and the statistics are read.
NextEngine ==
    \/ ConstructRemote
    \/ ConstructFallback
    \/ /\ cpc = "ready"
       /\ \/ \E q \in Questions, docs \in EngineDocLists, stream_callback \in BOOLEAN :
                QueryCall(q, docs, stream_callback)
          \/ AddSteps
          \/ QuerySteps
          \/ ClearDocuments
          \/ GetStats

SpecEngine == InitNew /\ [][NextEngine]_vars

\* The files processed and the documents passed along with a question when
\* the usage counters are followed.
UsageDocs == {DocA, DocACopy, DocAEdited}

UsageDocLists == {<<DocAEdited>>, <<DocACopy, DocAEdited>>}

\* Files are processed and questions about some of them are asked.
NextUsage ==
    \/ \E docs \in UsageDocLists : QueryCall(<<"what", "color", "sky">>, docs, FALSE)
    \/ AddSteps
    \/ QuerySteps
    \/ \E doc \in UsageDocs : ProcessDocument(doc)

SpecUsage == Init /\ [][NextUsage]_vars

\* The documents the two threads add.
FirstThreadDocLists == {<<DocA>>, <<DocAEdited>>}

SecondThreadDocLists == {<<DocACopy>>, <<DocA, DocAEdited>>}

Add2Steps ==
    \/ Add2Collect
    \/ Add2BatchStored
    \/ Add2BatchFailed
    \/ Add2SmallStored
    \/ Add2SmallFailed
    \/ Add2Return

\* Two threads add documents to the same collection, their steps interleaved.
NextConcurrent ==
    \/ \E docs \in FirstThreadDocLists : AddDocumentsCall(docs)
    \/ AddSteps
    \/ \E docs \in SecondThreadDocLists : Add2Call(docs)
    \/ Add2Steps

SpecConcurrent == InitStore /\ [][NextConcurrent]_vars

\* The engines of the process load, use and clean up their models.
NextMemory ==
    \/ \E i \in Engines : GetEmbeddingModel(i)
    \/ \E i \in Engines : StoreCleanup(i)
    \/ \E i \in Engines : EngineCleanup(i)
    \/ ForceCleanup

SpecMemory == InitStore /\ [][NextMemory]_vars

\* The manager and owners that let go of their models.
NextManager ==
    \/ \E i \in Engines : GetEmbeddingModel(i)
    \/ \E i \in Engines : OwnerDropsModel(i)
    \/ CleanupUnusedModels
    \/ ForceCleanup

SpecManager == InitStore /\ [][NextManager]_vars

\* The local generator driven directly.
NextLocal ==
    \/ \E q \in LocalQuestions, ctx \in LocalContexts, stream_callback \in BOOLEAN :
          ProcessQuestionCall(q, ctx, stream_callback)
    \/ ProcessQuestionTools
    \/ ProcessQuestionClassify

\* After RAGEngine.__init__ fell back to the local generator.
InitLocal == Init /\ ~using_gemini

SpecLocal == InitLocal /\ [][NextLocal]_vars

\* The tool executor driven directly.
NextTools ==
    \/ \E c \in ToolCalls : ToolCall(c[1], c[2])
    \/ ToolExecute

SpecTools == Init /\ [][NextTools]_vars

\* Questions about one document, and ratings of the answers.
NextFeedback ==
    \/ \E stream_callback \in BOOLEAN :
          QueryCall(<<"what", "color", "sky">>, <<DocA>>, stream_callback)
    \/ AddSteps
    \/ QuerySteps
    \/ \E qid \in 1..MaxQueries, rating \in Ratings, feedback \in Feedbacks :
          UpdateUserFeedback(qid, rating, feedback)

SpecFeedback == Init /\ [][NextFeedback]_vars


(***************************************************************************)
(* Properties.                                                             *)
(***************************************************************************)

\* C1: every query() call that returns, returns a 3-tuple (response, sources,
\* query_id) whose first element is a non-empty text, also when retrieval
\* found nothing.
C1_QueryReturnsTriple ==
    pc \in {"done", "fail"} => (Len(ret) = 3 /\ ret[1] # <<>>)

C3_OneRowPerIdentityNoOverwrite ==
    [][ /\ Cardinality({r.id : r \in collection'}) = Cardinality(collection')
        /\ apc # "none" => collection \subseteq collection' ]_vars

\* A batch was stored that named an identity already stored under another filename.
C3_Witness ==
    /\ apc = "batch" /\ submits # <<>> /\ submits[Len(submits)].ok
    /\ \E k \in 1..Len(ids) : \E r \in collection : r.id = ids[k].id /\ r.filename # ids[k].filename

\* C4: when the search of query() returns nothing, the call returns the fixed
\* message with empty sources, the generator has not been invoked, and the
\* telemetry tables are as they were when the call began (no Query Record for
\* this query_id, no usage counter changed).
C4_NoResultsShortCircuit ==
    [][ (op = "query" /\ pc = "search" /\ search_results = <<>>) =>
          /\ pc' = "fail"
          /\ ret' = <<NoInfoMessage, {}>>
          /\ gen_calls' = 0
          /\ <<query_metrics', document_metrics'>> = telemetry_at_call
          /\ \A r \in query_metrics' : r.query_id # query_id ]_vars

C4_Witness ==
    pc = "fail" /\ ret = <<NoInfoMessage, {}>> /\ document_metrics # {}

\* Character length of the context of n results: each part is the 13-character
\* label "[Context N]: " and the text, parts are separated by two newlines.
ExpectedContextLength(results) ==
    LET RECURSIVE Sum(_)
        Sum(k) == IF k = 0 THEN 0 ELSE Sum(k - 1) + 13 + Len(results[k].text)
    IN Sum(Len(results)) + 2 * (Len(results) - 1)

\* C5: when a query() call that was not short-circuited has logged, exactly one
\* Query Record more than before the call exists, exactly one has the call's
\* query_id, and its context_length, chunk_count and sources are those of the
\* retrieved chunks; the returned triple names that record and its sources.
C5_OneQueryRecordPerQuery ==
    /\ (op = "query" /\ pc = "log") =>
          /\ Cardinality(query_metrics) = Cardinality(telemetry_at_call[1]) + 1
          /\ Cardinality({r \in query_metrics : r.query_id = query_id}) = 1
          /\ \A r \in query_metrics : r.query_id = query_id =>
                /\ r.context_length = ExpectedContextLength(search_results)
                /\ r.chunk_count = Len(search_results)
                /\ r.sources = {search_results[k].metadata.filename : k \in 1..Len(search_results)}
    /\ pc = "done" =>
          /\ Len(ret) = 3
          /\ Cardinality({r \in query_metrics : r.query_id = ret[3]}) = 1
          /\ \A r \in query_metrics : r.query_id = ret[3] => r.sources = ret[2] /\ r.response = ret[1]

\* A query over two files returned after logging.
C5_Witness ==
    pc = "done" /\ Len(ret) = 3 /\ Cardinality(ret[2]) = 2
    /\ \E r \in query_metrics : r.query_id = ret[3] /\ r.chunk_count = 3

\* C6: no query() call ends with an exception raised by the generator.
C6_GenerationNeverRaises ==
    raised # "generate"

\* C7: the stages of one query() call follow START, SEARCH, GENERATE, LOG,
\* DONE; FAIL is entered only from SEARCH on an empty result; the generator is
\* invoked only from SEARCH, the Query Record is written only from GENERATE,
\* and once the generator has been invoked the call goes on to LOG and DONE.
C7_StageOrder ==
    [][ /\ pc' # pc =>
             \/ pc' = "start" /\ op = "none"
             \/ pc = "start" /\ pc' \in {"search", "raised"}
             \/ pc = "search" /\ pc' = "generate"
             \/ pc = "search" /\ pc' = "fail" /\ search_results = <<>>
             \/ pc = "generate" /\ pc' = "log"
             \/ pc = "log" /\ pc' = "done"
        /\ (gen_calls' # gen_calls /\ op = "query") => pc = "search"
        /\ (query_metrics' # query_metrics /\ op = "query") => pc = "generate" ]_vars

\* Number of rag_logger.error lines the submissions call for.
FailedSubmits(subs) == Cardinality({k \in 1..Len(subs) : ~subs[k].ok})

\* C8: while add_documents runs its batch loop, every chunk before the loop
\* position was submitted in a batch whatever happened to earlier batches,
\* every failure was logged, and the rows of every submission that succeeded
\* are stored; so at the end of the loop every batch has been attempted.
C8_FailedBatchDoesNotAbort ==
    apc = "batch" =>
        /\ bi >= Len(ids) \/ bi = batch_size * Cardinality({k \in 1..Len(submits) : ~submits[k].small})
        /\ \A n \in 1..Min(bi, Len(ids)) :
              \E k \in 1..Len(submits) : ~submits[k].small /\ submits[k].lo < n /\ n <= submits[k].hi
        /\ errors_logged = FailedSubmits(submits)
        /\ \A k \in 1..Len(submits) : submits[k].ok =>
              \A n \in (submits[k].lo + 1)..submits[k].hi : ids[n].id \in StoredIds(collection)

\* The first batch and both its halves failed, the second batch was stored.
C8_Witness ==
    /\ apc = "batch" /\ bi >= Len(ids) /\ Len(submits) = 4
    /\ ~submits[1].ok /\ ~submits[2].ok /\ ~submits[3].ok
    /\ submits[4].ok /\ ~submits[4].small
    /\ ids[Len(ids)].id \in StoredIds(collection)

C10_RatingUpdateChangesOnlyRating ==
    [][ \A qid \in 1..MaxQueries, rating \in Ratings :
          UpdateUserFeedback(qid, rating, NULL) =>
             query_metrics' = {IF r.query_id = qid THEN [r EXCEPT !.user_rating = Some(rating)]
                               ELSE r : r \in query_metrics} ]_vars

\* C11: execute_tool never lets an exception escape and always returns a
\* text; an unknown tool, a missing argument, an unknown operation and an
\* unparsable date each give the text that describes the error.
C11_ExecuteToolReturnsString ==
    /\ tpc # "raised"
    /\ tpc = "returned" =>
          /\ tool_out.text # <<>>
          /\ tool_name \notin {"calculator", "date_calculator", "text_analyzer"} =>
                tool_out.text = <<"Unknown tool: ", tool_name>>
          /\ (tool_name = "calculator" /\ "expression" \notin DOMAIN tool_params) =>
                tool_out.text[1] = "Tool execution error: "
          /\ (tool_name = "text_analyzer" /\ ~{"text", "analysis_type"} \subseteq DOMAIN tool_params) =>
                tool_out.text[1] = "Tool execution error: "
          /\ (tool_name = "date_calculator" /\ "operation" \notin DOMAIN tool_params) =>
                tool_out.text[1] = "Tool execution error: "
          /\ (tool_name = "date_calculator" /\ "operation" \in DOMAIN tool_params) =>
                /\ tool_params.operation \notin {"current_date", "current_time", "date_diff", "add_days"} =>
                      tool_out.text = <<"Unknown date operation">>
                /\ (tool_params.operation \in {"date_diff", "add_days"}
                      /\ ("date1" \notin DOMAIN tool_params \/ ParseDate(tool_params.date1) = 0)) =>
                      tool_out.text[1] = "Date calculation error: "

\* execute_tool has returned from a date_calculator call without an operation.
C11_Witness ==
    /\ tpc = "returned" /\ tool_name = "date_calculator" /\ tool_params = NoParams
    /\ tool_out.text = <<"Tool execution error: ", "'operation'">>

\* C12: when the calculator is given an expression that, spaces removed,
\* holds a character outside the whitelist, it returns the rejection message
\* and eval() is not reached.
C12_CalculatorRejectsUnlisted ==
    (tpc = "returned" /\ tool_name = "calculator" /\ "expression" \in DOMAIN tool_params
       /\ \E k \in 1..Len(tool_params.expression) :
             tool_params.expression[k] \notin allowed_chars \cup {" "}) =>
        /\ ~tool_out.evaluated
        /\ tool_out.text = <<"Invalid characters in expression">>

\* C13: RAGEngine.__init__ never raises, and when GeminiProcessor() could not
\* be constructed it ends with the local variant active.
C13_ConstructionFallsBack ==
    /\ cpc # "raised"
    /\ (cpc = "ready" /\ GeminiInitRaises) => ~using_gemini

\* C14: once __init__ has returned, no step changes the active generator
\* variant, constructs GeminiProcessor again or re-enters the constructor.
C14_VariantChosenOnce ==
    [][ cpc = "ready" =>
          /\ using_gemini' = using_gemini
          /\ gemini_inits' = gemini_inits
          /\ cpc' = "ready" ]_vars

\* A query of an engine with the remote variant returned the generator's error
\* text, and the remote variant is still active.
C14_Witness ==
    /\ cpc = "ready" /\ using_gemini /\ gemini_inits = 1
    /\ pc = "done" /\ Len(ret) = 3 /\ ret[1] = GeminiError

\* C15: when the local variant has generated the response of a query, nothing
\* was passed to the stream_callback.
C15_LocalNeverStreams ==
    (~using_gemini /\ op = "query" /\ pc = "generate") => fragments = <<>>

\* C16: when the remote variant has generated the response of a query that
\* carries a stream_callback, the fragments passed to the callback, joined in
\* call order, are the text returned.
C16_FragmentsConcatToResponse ==
    (using_gemini /\ op = "query" /\ pc = "generate" /\ streaming) => Concat(fragments) = response

C18_SearchResultsOrdered ==
    (search_ret # NULL /\ ~search_ret[1].raises) =>
        LET results == search_ret[1].results IN
        /\ Len(results) <= search_ret[1].n_results
        /\ \A k \in 1..Len(results) :
              \E r \in search_ret[1].index :
                  /\ results[k].text = r.text
                  /\ results[k].metadata = [filename |-> r.filename, filepath |-> r.filepath,
                                            chunk_index |-> r.chunk_index, file_hash |-> r.file_hash]
        /\ \A k \in 1..(Len(results) - 1) : results[k].distance <= results[k + 1].distance

\* Two of three stored chunks were returned, the nearer one first.
C18_Witness ==
    /\ search_ret # NULL /\ ~search_ret[1].raises
    /\ Cardinality(search_ret[1].index) = 3
    /\ search_ret[1].n_results = 2 /\ Len(search_ret[1].results) = 2
    /\ search_ret[1].results[1].distance < search_ret[1].results[2].distance

\* C19: after remove_document(file_hash) the stored rows are the rows stored
\* before the call whose identity does not start with that file_hash, each
\* unchanged; nothing changes when no identity does.
C19_RemoveExactlyThatDocument ==
    removed # NULL =>
        collection = {r \in removed[1].before : r.id[1] # removed[1].file_hash}

\* A document was removed while another one with the same filename stays stored.
C19_Witness ==
    /\ removed # NULL /\ collection # {} /\ collection # removed[1].before
    /\ \E r \in collection : \E o \in removed[1].before \ collection : r.filename = o.filename

\* C20: a clear_documents() call leaves no row stored and leaves every Query
\* Record and every Document Usage Record as it was.
C20_ClearEmptiesStoreOnly ==
    [][ ClearDocuments =>
          /\ collection' = {}
          /\ query_metrics' = query_metrics
          /\ document_metrics' = document_metrics ]_vars

\* The chunk identities of the documents of a call, one entry per chunk.
CallIds(docs) == Concat([d \in 1..Len(docs) |-> [k \in 1..Len(docs[d].chunks) |-> ChunkId(docs[d].file_hash, k - 1)]])

\* C21: an add_documents call that logged no storage failure, on documents
\* whose chunk identities are pairwise distinct and none of which was stored,
\* raises get_document_count() by the total number of their chunks; the count
\* is above 0 after a document with at least one chunk was added so.
C21_AddIncreasesCount ==
    (/\ added # NULL /\ added[1].done /\ added[1].errors = 0
     /\ Cardinality(Range(CallIds(added[1].docs))) = Len(CallIds(added[1].docs))
     /\ Range(CallIds(added[1].docs)) \cap StoredIds(added[1].before) = {}) =>
        /\ Cardinality(added[1].after) = Cardinality(added[1].before) + Len(CallIds(added[1].docs))
        /\ Len(CallIds(added[1].docs)) > 0 => Cardinality(added[1].after) > 0

\* Two new chunks were added to a store that held one.
C21_Witness ==
    /\ added # NULL /\ added[1].done /\ added[1].errors = 0
    /\ added[1].docs = <<DocAEdited>>
    /\ Cardinality(added[1].before) = 1
    /\ Cardinality(added[1].after) = 3

\* The submissions of the call in flight that hold entry n of its lists.
SubmitsOf(n) == {k \in 1..Len(submits) : submits[k].lo < n /\ n <= submits[k].hi}

\* C22: while add_documents runs, every entry of its lists was submitted at
\* most twice: at most once in a batch of at most batch_size entries and at
\* most once in a sub-batch of at most half that size, the latter only after
\* its batch had failed; no submission follows a failed sub-batch.
C22_AtMostTwoSubmissions ==
    apc \in {"batch", "small"} =>
        \A n \in 1..Len(ids) :
            LET batches == {k \in SubmitsOf(n) : ~submits[k].small}
                retries == {k \in SubmitsOf(n) : submits[k].small}
            IN /\ Cardinality(SubmitsOf(n)) <= 2
               /\ Cardinality(batches) <= 1 /\ Cardinality(retries) <= 1
               /\ \A k \in batches : submits[k].hi - submits[k].lo <= batch_size
               /\ \A k \in retries :
                     /\ submits[k].hi - submits[k].lo <= batch_size \div 2
                     /\ \E j \in batches : j < k /\ ~submits[j].ok
                     /\ ~submits[k].ok => \A j \in SubmitsOf(n) : j <= k

\* The first batch failed, its first half failed again and was dropped, its
\* second half and the second batch were stored.
C22_Witness ==
    /\ apc = "batch" /\ bi >= Len(ids) /\ Len(ids) > batch_size /\ Len(submits) = 4
    /\ ~submits[1].ok /\ ~submits[1].small
    /\ ~submits[2].ok /\ submits[2].small
    /\ submits[3].ok /\ submits[3].small
    /\ submits[4].ok /\ ~submits[4].small
    /\ ids[1].id \notin StoredIds(collection)

\* C23: when the search of a query() call that was given documents has
\* returned, the add_documents call on those documents had returned before
\* it, and the search ran on the rows stored then: every result is one of
\* them, and when they are no more than the retrieval width every stored
\* chunk of the given documents is among the results.
C23_AddBeforeSearch ==
    (op = "query" /\ pc = "search" /\ documents # <<>>) =>
        /\ added # NULL /\ added[1].done /\ added[1].docs = documents
        /\ apc = "none"
        /\ \A k \in 1..Len(search_results) :
              \E r \in added[1].after : search_results[k].text = r.text
                                         /\ search_results[k].metadata.file_hash = r.file_hash
                                         /\ search_results[k].metadata.chunk_index = r.chunk_index
        /\ Cardinality(added[1].after) <= NResults(question) =>
              \A r \in added[1].after :
                  (\E d \in 1..Len(documents) : documents[d].file_hash = r.file_hash) =>
                      \E k \in 1..Len(search_results) :
                          /\ search_results[k].metadata.file_hash = r.file_hash
                          /\ search_results[k].metadata.chunk_index = r.chunk_index

\* A query on an empty store that was given two documents retrieved the three
\* chunks its own add_documents call had stored.
C23_Witness ==
    /\ op = "query" /\ pc = "search" /\ documents = <<DocACopy, DocAEdited>>
    /\ added # NULL /\ added[1].before = {} /\ Cardinality(added[1].after) = 3
    /\ Len(search_results) = 3

\* C27: when a query() call has written its Query Record and incremented the
\* usage counters, the document records are those that existed when the call
\* began, each with its usage_count raised by 1 if its filename is among the
\* sources of the call and otherwise as it was; no record was created for a
\* source without one, and nothing was raised.
C27_UsageIncrementedForSources ==
    (op = "query" /\ pc = "log") =>
        LET before == telemetry_at_call[2] IN
        /\ raised = "no"
        /\ Cardinality(document_metrics) = Cardinality(before)
        /\ \A s \in document_metrics : \E r \in before : s.doc_id = r.doc_id
        /\ \A r \in before : \E s \in document_metrics :
              /\ s.doc_id = r.doc_id /\ s.filename = r.filename /\ s.chunk_count = r.chunk_count
              /\ s.usage_count = r.usage_count + (IF r.filename \in sources THEN 1 ELSE 0)

\* A query that cited a.txt raised the counter of the record of a.txt and left
\* the record of b.txt as it was.
C27_Witness ==
    /\ op = "query" /\ pc = "log" /\ sources = {"a.txt"}
    /\ \E s \in document_metrics : s.filename = "a.txt" /\ s.usage_count = 1
    /\ \E s \in document_metrics : s.filename = "b.txt" /\ s.usage_count = 0

\* C30: no step lowers the usage_count of a document record that exists
\* before and after it.
C30_UsageCountNeverDecreases ==
    [][ \A r \in document_metrics : \A s \in document_metrics' :
           s.doc_id = r.doc_id => s.usage_count >= r.usage_count ]_vars

BothAddsDone == added # NULL /\ added[1].done /\ adder2.done /\ adder2.apc = "none"

\* The chunk identities the two calls were given.
BothCallIds == Range(CallIds(added[1].docs)) \cup Range(CallIds(adder2.documents))

C24_CleanupRemovesDroppedModels ==
    last_model_op.op = "cleanup_unused_models" =>
        OwnedModels(memory_manager) \subseteq HeldModels(embedding_model)

\* Whether the model engine i's store holds is the registered one.
Registered(i) ==
    /\ embedding_model[i] # NULL
    /\ memory_manager.loaded_models["sentence_transformer"] = embedding_model[i]

\* C25: a store that has just needed its embedding model holds a model that
\* is registered with the manager, whatever was evicted before.
C25_ModelRegisteredAfterNeed ==
    last_model_op.op = "_get_embedding_model" => Registered(last_model_op.engine)

\* C29: the cleanup of one engine leaves the loaded embedding model of every
\* other live engine, and whether that model is registered, as they were.
C29_CleanupLeavesOtherEngines ==
    [][\A i \in Engines :
          (engine_active[i] /\ ~engine_active'[i]) =>
              \A j \in Engines \ {i} :
                  engine_active[j] =>
                      /\ embedding_model'[j] = embedding_model[j]
                      /\ Registered(j)' <=> Registered(j)]_vars

====
